---------------------------- MODULE Spec2Model ----------------------------
(***************************************************************************)
(* A model of the alethe proof checker's substitution engine               *)
(* (ast/substitution.rs) and of its "Lower Units" proof compression        *)
(* (checker/compression/mod.rs).                                           *)
(*                                                                         *)
(* Terms are records, one field set per variant of Term, so that two       *)
(* structurally equal terms are the same value: this is what hash-consing  *)
(* in the term pool gives (Rc<Term> equality is structural equality).      *)
(***************************************************************************)
EXTENDS Integers, Sequences, FiniteSets, TLC

VARIABLES
    sub,      \* the Substitution object of this run, or NoSub before construction
    last,     \* what the last call on it was given and what it returned
    inTerm,   \* the term this run applies the substitution to
    inPair,   \* the pair (x, t) this run constructs/extends the substitution with
    proof,        \* the commands of the proof given to compress_proof
    phase,        \* where compress_proof is
    queue,        \* collect_units: the traversal queue
    visited,      \* collect_units: how often a one-literal command was met (0: once)
    unit_nodes,   \* collect_units: the unit nodes found, in discovery order
    dnm,          \* compress_proof: the marks of the unit nodes
    actual,       \* the redirection array
    new_commands, \* the rebuilt command sequence
    added,        \* added[i]: the rebuilt index of original command i, 0 for None
    next_unit,    \* the position in unit_nodes of the unit the reinsertion loop is at
    emitted,      \* what compress_proof printed as the new proof
    stdout,       \* the lines compress_proof printed before the new proof
    pivIn,        \* get_pivots: the conclusion and the premise clauses it is given
    pivOut,       \* get_pivots: whether it was called, panicked, and what it returned
    simpIn,       \* generic_simplify_rule: the conclusion and the simplify_function
    simp,         \* generic_simplify_rule: where it is, current, goal and seen
    benchIn,      \* run_benchmark: the instances, num_runs, num_threads
    benchOut,     \* run_benchmark: where it is and the results it has joined
    jobs_queue,   \* run_benchmark: the queue the worker threads share
    workers       \* the worker threads: where each is, its job and its results

substVars == <<sub, last, inTerm, inPair>>

compVars == <<proof, phase, queue, visited, unit_nodes, dnm, actual,
              new_commands, added, next_unit, emitted, stdout>>

ruleVars == <<pivIn, pivOut, simpIn, simp>>

benchVars == <<benchIn, benchOut, jobs_queue, workers>>

vars == <<substVars, compVars, ruleVars, benchVars>>

\* A run of the substitution engine compresses nothing.
CompressIdle ==
    /\ proof = << >>
    /\ phase = "idle"
    /\ queue = << >>
    /\ visited = << >>
    /\ unit_nodes = << >>
    /\ dnm = << >>
    /\ actual = << >>
    /\ new_commands = << >>
    /\ added = << >>
    /\ next_unit = 1
    /\ emitted = << >>
    /\ stdout = << >>

\* A run that calls no rule-level function on its own.
PivotsIdle ==
    /\ pivIn = [conclusion |-> << >>, premises |-> << >>]
    /\ pivOut = [called |-> FALSE, panic |-> FALSE, pivot |-> << >>]

SimplifyIdle ==
    /\ simpIn = [conclusion |-> << >>, fn |-> [name |-> "none", table |-> << >>]]
    /\ simp = [pc |-> "idle", goal |-> [noterm |-> TRUE], current |-> [noterm |-> TRUE],
               seen |-> {}, next |-> [noterm |-> TRUE]]

\* A run that benchmarks nothing.
BenchIdle ==
    /\ benchIn = [instances |-> 0, num_runs |-> 0, num_threads |-> 0, failing |-> {}]
    /\ benchOut = [pc |-> "idle", joined |-> << >>]
    /\ jobs_queue = << >>
    /\ workers = << >>

RulesIdle == PivotsIdle /\ SimplifyIdle /\ BenchIdle

---------------------------------------------------------------------------
(* Terms                                                                   *)

Var(n, s)         == [var |-> n, sort |-> s]
IntC(i)           == [int |-> i]
OpT(o, as)        == [op |-> o, args |-> as]
AppT(f, as)       == [func |-> f, fargs |-> as]
QuantT(q, bl, t)  == [quant |-> q, binds |-> bl, body |-> t]
ChoiceT(b, t)     == [choice |-> b, cbody |-> t]
LetT(bl, t)       == [lets |-> bl, lbody |-> t]
LambdaT(bl, t)    == [lambda |-> bl, lambody |-> t]
SortT(s)          == [sortterm |-> s]

IsVar(t)    == "var" \in DOMAIN t
IsInt(t)    == "int" \in DOMAIN t
IsOp(t)     == "op" \in DOMAIN t
IsApp(t)    == "func" \in DOMAIN t
IsQuant(t)  == "quant" \in DOMAIN t
IsChoice(t) == "choice" \in DOMAIN t
IsLet(t)    == "lets" \in DOMAIN t
IsLambda(t) == "lambda" \in DOMAIN t
IsSortT(t)  == "sortterm" \in DOMAIN t

IsBinder(t) == IsQuant(t) \/ IsChoice(t) \/ IsLet(t) \/ IsLambda(t)

\* The binding list and the body of a binder term, whatever its variant.
BindsOf(t) ==
    IF IsQuant(t) THEN t.binds
    ELSE IF IsChoice(t) THEN <<t.choice>>
    ELSE IF IsLet(t) THEN t.lets
    ELSE t.lambda

BodyOf(t) ==
    IF IsQuant(t) THEN t.body
    ELSE IF IsChoice(t) THEN t.cbody
    ELSE IF IsLet(t) THEN t.lbody
    ELSE t.lambody

SeqRange(s) == {s[i] : i \in DOMAIN s}

BoundNames(bl) == {bl[i][1] : i \in DOMAIN bl}

---------------------------------------------------------------------------
(* The term pool's sort and free-variable queries                          *)

\* The result sort of an operator application.
OpSort(o) == IF o \in {"+", "-", "*"} THEN "Int" ELSE "Bool"

\* The result sort of a function sort.
RetSort(s) == IF s = "Int->Int" THEN "Int" ELSE IF s = "Int->Bool" THEN "Bool" ELSE s

RECURSIVE SortOf(_)
SortOf(t) ==
    IF IsVar(t) THEN t.sort
    ELSE IF IsInt(t) THEN "Int"
    ELSE IF IsOp(t) THEN OpSort(t.op)
    ELSE IF IsApp(t) THEN RetSort(SortOf(t.func))
    ELSE IF IsQuant(t) THEN "Bool"
    ELSE IF IsChoice(t) THEN t.choice[2].sortterm
    ELSE IF IsLet(t) THEN SortOf(t.lbody)
    ELSE IF IsLambda(t) THEN "Fun"
    ELSE t.sortterm

RECURSIVE FreeVars(_)
FreeVars(t) ==
    IF IsVar(t) THEN {t.var}
    ELSE IF IsInt(t) \/ IsSortT(t) THEN {}
    ELSE IF IsOp(t) THEN UNION {FreeVars(t.args[i]) : i \in DOMAIN t.args}
    ELSE IF IsApp(t)
        THEN FreeVars(t.func) \cup UNION {FreeVars(t.fargs[i]) : i \in DOMAIN t.fargs}
    ELSE IF IsLet(t)
        THEN (FreeVars(t.lbody) \ BoundNames(t.lets))
             \cup UNION {FreeVars(t.lets[i][2]) : i \in DOMAIN t.lets}
    ELSE FreeVars(BodyOf(t)) \ BoundNames(BindsOf(t))

\* as_var: the set holding the name of a plain variable, empty for any other term.
AsVar(t) == IF IsVar(t) THEN {t.var} ELSE {}

---------------------------------------------------------------------------
(* Substitution: construction and insertion                                *)

\* The value of `sub` before any constructor has returned Ok.
NoSub == [none |-> TRUE]

\* map, sbr (should_be_renamed) and cache are the struct's fields. Two more keep
\* the object's history: `log` is the sequence of terms whose image this object
\* has computed (one entry per pass through the match of apply), `ever` the set
\* of pairs that were ever put into it.
EmptySub == [map |-> << >>, sbr |-> {}, cache |-> << >>, log |-> << >>, ever |-> {}]

\* Faulty variant of RenamedBy: the reflexive pair is not skipped.
RenamedByAnyPair(x, t) == FreeVars(t) \cup AsVar(x)

\* The names insert/new add to should_be_renamed for the pair (x, t).
RenamedBy(x, t) == IF x = t THEN {} ELSE FreeVars(t) \cup AsVar(x)

\* Faulty variant of Insert: the object is extended before the sorts are
\* compared.
InsertThenCheck(s, x, t) ==
    [ok |-> SortOf(x) = SortOf(t),
     s  |-> [s EXCEPT !.sbr = @ \cup FreeVars(t) \cup AsVar(x),
                      !.map = (x :> t) @@ @,
                      !.ever = @ \cup {<<x, t>>}]]

Insert(s, x, t) ==
    IF SortOf(x) # SortOf(t)
    THEN [ok |-> FALSE, s |-> s]
    ELSE [ok |-> TRUE,
          s  |-> [s EXCEPT !.sbr = @ \cup RenamedBy(x, t),
                           !.map = (x :> t) @@ @,
                           !.ever = @ \cup {<<x, t>>}]]

Single(x, t) == Insert(EmptySub, x, t)

New(m) ==
    IF \E k \in DOMAIN m : SortOf(k) # SortOf(m[k])
    THEN [ok |-> FALSE, s |-> NoSub]
    ELSE [ok |-> TRUE,
          s  |-> [map   |-> m,
                  sbr   |-> UNION {RenamedBy(k, m[k]) : k \in DOMAIN m},
                  cache |-> << >>,
                  log   |-> << >>,
                  ever  |-> {<<k, m[k]>> : k \in DOMAIN m}]]

IsEmptySub(s) == DOMAIN s.map = {}

---------------------------------------------------------------------------
(* Substitution: apply                                                     *)

\* Faulty variant of FreshName: the marker is appended without looking at
\* should_be_renamed.
FreshNameAlways(v, sbr, newVars) == v \o "@"

\* The loop of rename_binding_list: '@' is appended while the name collides.
RECURSIVE FreshName(_, _, _)
FreshName(v, sbr, newVars) ==
    IF v \in sbr \/ v \in newVars THEN FreshName(v \o "@", sbr, newVars) ELSE v

\* The one element of a singleton set. A value computed once is bound with
\* Only({e(r) : r \in {v}}), so that v is evaluated a single time.
Only(S) == CHOOSE v \in S : TRUE

RECURSIVE Apply(_, _)
RECURSIVE ApplySeq(_, _, _)
RECURSIVE ApplyToBinder(_, _, _, _)
RECURSIVE RenameFrom(_, _, _, _, _)

\* apply_to_sequence!: the elements left to right, each through apply.
\* acc = [s, out, ok]
ApplySeq(seq, i, acc) ==
    IF i > Len(seq) THEN acc
    ELSE ApplySeq(seq, i + 1,
                  Only({[s |-> r.s, out |-> Append(acc.out, r.t), ok |-> acc.ok /\ r.ok]
                        : r \in {Apply(acc.s, seq[i])}}))

\* The value of a binding: in a value list, its image under new_substitution
\* (which the call may extend the cache of).  st = [ns, nv, ok]
RenameValue(var, value, isValueList, st, out) ==
    IF isValueList
    THEN Only({[ns  |-> av.s, nv |-> st.nv,
                out |-> Append(out, <<var, av.t>>),
                ok  |-> st.ok /\ av.ok] : av \in {Apply(st.ns, value)}})
    ELSE [ns |-> st.ns, nv |-> st.nv, out |-> Append(out, <<var, value>>), ok |-> st.ok]

\* Faulty variant of RenameBinding: new_vars is not extended.
RenameBindingForgetful(sbr, b, isValueList, acc) ==
    LET var    == b[1]
        value  == b[2]
        sort   == IF isValueList THEN SortT(SortOf(value)) ELSE value
        newVar == FreshName(var, sbr, acc.nv)
    IN IF newVar # var
       THEN Only({RenameValue(newVar, value, isValueList,
                              [ns |-> ins.s, nv |-> acc.nv,
                               ok |-> acc.ok /\ ins.ok], acc.out)
                  : ins \in {Insert(acc.ns, Var(var, sort.sortterm),
                                    Var(newVar, sort.sortterm))}})
       ELSE RenameValue(newVar, value, isValueList,
                        [ns |-> acc.ns, nv |-> acc.nv, ok |-> acc.ok], acc.out)

\* Faulty variant of RenameBinding: the renamed variable is built without the
\* sort of the binding.
RenameBindingUnsorted(sbr, b, isValueList, acc) ==
    LET var    == b[1]
        value  == b[2]
        sort   == IF isValueList THEN SortT(SortOf(value)) ELSE value
        newVar == FreshName(var, sbr, acc.nv)
    IN IF newVar # var
       THEN Only({RenameValue(newVar, value, isValueList,
                              [ns |-> ins.s, nv |-> acc.nv \cup {newVar},
                               ok |-> acc.ok /\ ins.ok], acc.out)
                  : ins \in {Insert(acc.ns, Var(var, sort.sortterm),
                                    Var(newVar, "Unknown"))}})
       ELSE RenameValue(newVar, value, isValueList,
                        [ns |-> acc.ns, nv |-> acc.nv, ok |-> acc.ok], acc.out)

\* One element of the map closure of rename_binding_list.
\* acc = [ns (new_substitution), nv (new_vars), out (new_binding_list), ok]
RenameBinding(sbr, b, isValueList, acc) ==
    LET var    == b[1]
        value  == b[2]
        sort   == IF isValueList THEN SortT(SortOf(value)) ELSE value
        newVar == FreshName(var, sbr, acc.nv)
    IN IF newVar # var
       THEN Only({RenameValue(newVar, value, isValueList,
                              [ns |-> ins.s, nv |-> acc.nv \cup {newVar},
                               ok |-> acc.ok /\ ins.ok], acc.out)
                  : ins \in {Insert(acc.ns, Var(var, sort.sortterm),
                                    Var(newVar, sort.sortterm))}})
       ELSE RenameValue(newVar, value, isValueList,
                        [ns |-> acc.ns, nv |-> acc.nv, ok |-> acc.ok], acc.out)

RenameFrom(sbr, bl, isValueList, i, acc) ==
    IF i > Len(bl) THEN acc
    ELSE RenameFrom(sbr, bl, isValueList, i + 1,
                    Only({a : a \in {RenameBinding(sbr, bl[i], isValueList, acc)}}))

\* Returns [ns (the renaming substitution), nv, out (the new binding list), ok].
RenameBindingList(s, bl, isValueList) ==
    RenameFrom(s.sbr, bl, isValueList, 1,
               [ns |-> EmptySub, nv |-> {}, out |-> << >>, ok |-> TRUE])

\* The body of a binder under the renaming rb.ns, then under s.
ApplyRenamed(s, rb, inner) ==
    IF IsEmptySub(rb.ns)
    THEN Only({[s |-> r.s, binds |-> rb.out, t |-> r.t, ok |-> rb.ok /\ r.ok]
               : r \in {Apply(s, inner)}})
    ELSE Only({Only({[s |-> r.s, binds |-> rb.out, t |-> r.t,
                      ok |-> rb.ok /\ renamed.ok /\ r.ok]
                     : r \in {Apply(s, renamed.t)}})
               : renamed \in {Apply(rb.ns, inner)}})

\* Returns [s, binds, t, ok]
ApplyToBinder(s, bl, inner, isValueList) ==
    Only({ApplyRenamed(s, rb, inner) : rb \in {RenameBindingList(s, bl, isValueList)}})

\* The match of apply: the image of a term found neither in cache nor in map.
Rebuild(s, term) ==
    IF IsApp(term) THEN
        Only({Only({[s |-> f.s, t |-> AppT(f.t, as.out), ok |-> as.ok /\ f.ok]
                    : f \in {Apply(as.s, term.func)}})
              : as \in {ApplySeq(term.fargs, 1, [s |-> s, out |-> << >>, ok |-> TRUE])}})
    ELSE IF IsOp(term) THEN
        Only({[s |-> as.s, t |-> OpT(term.op, as.out), ok |-> as.ok]
              : as \in {ApplySeq(term.args, 1, [s |-> s, out |-> << >>, ok |-> TRUE])}})
    ELSE IF IsQuant(term) THEN
        Only({[s |-> r.s, t |-> QuantT(term.quant, r.binds, r.t), ok |-> r.ok]
              : r \in {ApplyToBinder(s, term.binds, term.body, FALSE)}})
    ELSE IF IsChoice(term) THEN
        Only({[s  |-> r.s,
               t  |-> IF Len(r.binds) > 0
                      THEN ChoiceT(r.binds[Len(r.binds)], r.t) ELSE term,
               ok |-> r.ok /\ Len(r.binds) > 0]
              : r \in {ApplyToBinder(s, <<term.choice>>, term.cbody, FALSE)}})
    ELSE IF IsLet(term) THEN
        Only({[s |-> r.s, t |-> LetT(r.binds, r.t), ok |-> r.ok]
              : r \in {ApplyToBinder(s, term.lets, term.lbody, TRUE)}})
    ELSE IF IsLambda(term) THEN
        Only({[s |-> r.s, t |-> LambdaT(r.binds, r.t), ok |-> r.ok]
              : r \in {ApplyToBinder(s, term.lambda, term.lambody, TRUE)}})
    ELSE [s |-> s, t |-> term, ok |-> TRUE]

\* Faulty variant of Apply: the cache is written but never read.
ApplyUncached(s, term) ==
    IF term \in DOMAIN s.map THEN [s |-> s, t |-> s.map[term], ok |-> TRUE]
    ELSE Only({[s  |-> [r.s EXCEPT !.cache = (term :> r.t) @@ @,
                                   !.log = Append(@, term)],
                t  |-> r.t,
                ok |-> r.ok]
               : r \in {Rebuild(s, term)}})

\* Returns [s (the object after the call), t (the image), ok (no panic)].
Apply(s, term) ==
    IF term \in DOMAIN s.cache THEN [s |-> s, t |-> s.cache[term], ok |-> TRUE]
    ELSE IF term \in DOMAIN s.map THEN [s |-> s, t |-> s.map[term], ok |-> TRUE]
    ELSE Only({[s  |-> [r.s EXCEPT !.cache = (term :> r.t) @@ @,
                                   !.log = Append(@, term)],
                t  |-> r.t,
                ok |-> r.ok]
               : r \in {Rebuild(s, term)}})

---------------------------------------------------------------------------
(* The terms, pairs and maps the substitution runs are given               *)

MaxBind == 2

IntS  == SortT("Int")
BoolS == SortT("Bool")
xI == Var("x", "Int")
yI == Var("y", "Int")
pB == Var("p", "Bool")
qB == Var("q", "Bool")
rB == Var("r", "Bool")
fF == Var("f", "Int->Int")
IV(n) == Var(n, "Int")

\* The terms of tests::test_substitutions.
TestTerms ==
    { xI,
      OpT("+", <<IntC(2), xI>>),
      QuantT("forall", << <<"p", BoolS>> >>, OpT("and", <<pB, qB>>)),
      QuantT("forall", << <<"x", IntS>> >>, OpT(">", <<xI, IntC(0)>>)),
      QuantT("forall", << <<"y", IntS>> >>, OpT(">", <<yI, xI>>)),
      QuantT("forall", << <<"x", IntS>>, <<"y", IntS>> >>, OpT("=", <<xI, yI>>)),
      QuantT("forall", << <<"x", IntS>>, <<"x@", IntS>> >>, OpT("=", <<xI, IV("x@")>>)),
      QuantT("forall", << <<"x", IntS>>, <<"x@", IntS>>, <<"x@@", IntS>> >>,
             OpT("=", <<xI, IV("x@"), IV("x@@")>>)),
      QuantT("forall", << <<"x", IntS>>, <<"x@", IntS>>, <<"x@", IntS>> >>,
             OpT("=", <<xI, IV("x@"), IV("x@")>>)),
      QuantT("forall", << <<"y", IntS>> >>, OpT(">", <<yI, IntC(0)>>)) }

\* Terms of the variants the tests leave out, shared subterms and nested binders.
MoreTerms ==
    { OpT("*", <<OpT("+", <<xI, yI>>), OpT("+", <<xI, yI>>)>>),
      AppT(fF, <<xI, OpT("+", <<xI, IntC(1)>>)>>),
      OpT("and", <<QuantT("forall", << <<"y", IntS>> >>,
                          OpT(">", <<OpT("+", <<yI, IntC(1)>>), IntC(0)>>)),
                   OpT(">", <<OpT("+", <<yI, IntC(1)>>), IntC(0)>>)>>),
      QuantT("forall", << <<"y@", IntS>>, <<"y", IntS>> >>, OpT("=", <<IV("y@"), yI>>)),
      QuantT("forall", << <<"y", IntS>> >>, OpT("=", <<IV("y@"), yI, xI>>)),
      QuantT("forall", << <<"y", IntS>> >>,
             QuantT("exists", << <<"y", IntS>> >>, OpT(">", <<yI, xI>>))),
      QuantT("exists", << <<"x", IntS>> >>,
             QuantT("forall", << <<"y", IntS>> >>, OpT(">", <<OpT("+", <<xI, yI>>), xI>>))),
      ChoiceT(<<"y", IntS>>, OpT(">", <<yI, xI>>)),
      ChoiceT(<<"x", IntS>>, OpT(">", <<xI, yI>>)),
      LambdaT(<< <<"y", IntS>> >>, OpT("+", <<yI, xI>>)),
      LetT(<< <<"a", xI>> >>, OpT("+", <<IV("a"), IntC(1)>>)),
      LetT(<< <<"x", yI>>, <<"y", IntC(1)>> >>, OpT("+", <<xI, yI>>)),
      LetT(<< <<"y", IntC(1)>>, <<"a", OpT("+", <<xI, IntC(1)>>)>> >>,
           OpT("+", <<yI, IV("a"), xI>>)) }

\* Every binding list of 1..MaxBind names out of GenNames, as a forall and as a
\* let, over a body that mentions each bound name and the free x and y.
GenNames == {"x", "y", "y@"}

NameLists == UNION {[1..n -> GenNames] : n \in 1..MaxBind}

GenBody(ns) == OpT("=", [i \in 1..(Len(ns) + 2) |->
                            IF i <= Len(ns) THEN IV(ns[i])
                            ELSE IF i = Len(ns) + 1 THEN xI ELSE yI])

GenForall(ns) == QuantT("forall", [i \in 1..Len(ns) |-> <<ns[i], IntS>>], GenBody(ns))

GenLet(ns) == LetT([i \in 1..Len(ns) |-> <<ns[i], IF i % 2 = 1 THEN yI ELSE xI>>],
                   GenBody(ns))

GenTerms == {GenForall(ns) : ns \in NameLists} \cup {GenLet(ns) : ns \in NameLists}

Terms == TestTerms \cup MoreTerms \cup GenTerms

\* The pairs (x, t): those of the tests, a swap, and pairs of different sorts.
Pairs ==
    { <<xI, xI>>,
      <<xI, yI>>,
      <<xI, OpT("+", <<IntC(3), IntC(4), IntC(5)>>)>>,
      <<xI, OpT("+", <<yI, IntC(0)>>)>>,
      <<qB, rB>>,
      <<yI, xI>>,
      <<xI, pB>>,
      <<pB, OpT("+", <<yI, IntC(0)>>)>> }

\* The maps given to new: one pair, a swap, two unrelated pairs, and two maps
\* holding a pair of different sorts.
Maps ==
    { (xI :> yI),
      (xI :> yI) @@ (yI :> xI),
      (qB :> rB) @@ (xI :> OpT("+", <<yI, IntC(0)>>)),
      (xI :> pB),
      (xI :> yI) @@ (qB :> xI) }

---------------------------------------------------------------------------
(* The substitution runs: one object, constructed once, then any sequence  *)
(* of insert and apply calls on it                                         *)

NoTerm == [noterm |-> TRUE]

InitSubst ==
    /\ sub = NoSub
    /\ last = [op |-> "none", ok |-> TRUE, out |-> NoTerm, pre |-> NoSub]
    /\ inTerm \in Terms
    /\ inPair \in Pairs
    /\ CompressIdle
    /\ RulesIdle

CallEmpty ==
    /\ sub = NoSub
    /\ last.op = "none"
    /\ sub' = EmptySub
    /\ last' = [op |-> "empty", ok |-> TRUE, out |-> NoTerm, pre |-> sub]
    /\ UNCHANGED <<inTerm, inPair, compVars, ruleVars, benchVars>>

CallSingle ==
    /\ sub = NoSub
    /\ last.op = "none"
    /\ \E r \in {Single(inPair[1], inPair[2])} :
          /\ sub' = IF r.ok THEN r.s ELSE NoSub
          /\ last' = [op |-> "single", ok |-> r.ok, out |-> NoTerm, pre |-> sub]
    /\ UNCHANGED <<inTerm, inPair, compVars, ruleVars, benchVars>>

CallNew ==
    /\ sub = NoSub
    /\ last.op = "none"
    /\ \E m \in Maps :
          \E r \in {New(m)} :
             /\ sub' = r.s
             /\ last' = [op |-> "new", ok |-> r.ok, out |-> NoTerm, pre |-> sub,
                         map |-> m]
    /\ UNCHANGED <<inTerm, inPair, compVars, ruleVars, benchVars>>

CallInsert ==
    /\ sub # NoSub
    /\ \E r \in {Insert(sub, inPair[1], inPair[2])} :
          /\ sub' = r.s
          /\ last' = [op |-> "insert", ok |-> r.ok, out |-> NoTerm, pre |-> sub]
    /\ UNCHANGED <<inTerm, inPair, compVars, ruleVars, benchVars>>

CallApply ==
    /\ sub # NoSub
    /\ \E r \in {Apply(sub, inTerm)} :
          /\ sub' = r.s
          /\ last' = [op |-> "apply", ok |-> r.ok, out |-> r.t, pre |-> sub]
    /\ UNCHANGED <<inTerm, inPair, compVars, ruleVars, benchVars>>

NextSubst == CallEmpty \/ CallSingle \/ CallNew \/ CallInsert \/ CallApply

SpecSubst == InitSubst /\ [][NextSubst]_vars

---------------------------------------------------------------------------
(* What a term means: its nameless form, and the substitution on it        *)

\* The rightmost position of name n in the list of names ns, 0 when absent
\* (of two bindings of one name in a list, the later one is the one in scope).
PosIn(n, ns) ==
    IF \E i \in DOMAIN ns : ns[i] = n
    THEN CHOOSE i \in DOMAIN ns : ns[i] = n /\ \A j \in DOMAIN ns : ns[j] = n => j <= i
    ELSE 0

\* The innermost frame of env (a sequence of name lists, innermost last) that
\* binds n, 0 when n is free.
FrameOf(n, env) ==
    IF \E k \in DOMAIN env : PosIn(n, env[k]) > 0
    THEN CHOOSE k \in DOMAIN env :
            PosIn(n, env[k]) > 0 /\ \A j \in DOMAIN env : PosIn(n, env[j]) > 0 => j <= k
    ELSE 0

NamesOf(bl) == [i \in DOMAIN bl |-> bl[i][1]]

\* The nameless form: a bound occurrence becomes the pair (number of binders
\* between it and its binder, position in that binder's list); binding lists
\* lose their names; free variables stay as they are.
RECURSIVE Nameless(_, _)
Nameless(t, env) ==
    IF IsVar(t) THEN
        IF FrameOf(t.var, env) = 0 THEN t
        ELSE [bound |-> <<Len(env) - FrameOf(t.var, env),
                          PosIn(t.var, env[FrameOf(t.var, env)])>>]
    ELSE IF IsInt(t) \/ IsSortT(t) THEN t
    ELSE IF IsOp(t) THEN
        OpT(t.op, [i \in DOMAIN t.args |-> Nameless(t.args[i], env)])
    ELSE IF IsApp(t) THEN
        AppT(Nameless(t.func, env), [i \in DOMAIN t.fargs |-> Nameless(t.fargs[i], env)])
    ELSE IF IsQuant(t) THEN
        [quant |-> t.quant, binds |-> [i \in DOMAIN t.binds |-> t.binds[i][2]],
         body |-> Nameless(t.body, Append(env, NamesOf(t.binds)))]
    ELSE IF IsChoice(t) THEN
        [choice |-> t.choice[2], cbody |-> Nameless(t.cbody, Append(env, <<t.choice[1]>>))]
    ELSE IF IsLet(t) THEN
        [lets |-> [i \in DOMAIN t.lets |-> Nameless(t.lets[i][2], env)],
         lbody |-> Nameless(t.lbody, Append(env, NamesOf(t.lets)))]
    ELSE
        [lambda |-> [i \in DOMAIN t.lambda |-> t.lambda[i][2]],
         lambody |-> Nameless(t.lambody, Append(env, NamesOf(t.lambda)))]

\* The simultaneous substitution m (keys: variables) on a nameless form: each
\* free occurrence of a key gives way to its image, whose variables stay free.
RECURSIVE SubstNameless(_, _)
SubstNameless(m, t) ==
    IF IsVar(t) THEN (IF t \in DOMAIN m THEN Nameless(m[t], << >>) ELSE t)
    ELSE IF "bound" \in DOMAIN t \/ IsInt(t) \/ IsSortT(t) THEN t
    ELSE IF IsOp(t) THEN
        OpT(t.op, [i \in DOMAIN t.args |-> SubstNameless(m, t.args[i])])
    ELSE IF IsApp(t) THEN
        AppT(SubstNameless(m, t.func),
             [i \in DOMAIN t.fargs |-> SubstNameless(m, t.fargs[i])])
    ELSE IF IsQuant(t) THEN [t EXCEPT !.body = SubstNameless(m, @)]
    ELSE IF IsChoice(t) THEN [t EXCEPT !.cbody = SubstNameless(m, @)]
    ELSE IF IsLet(t) THEN
        [lets |-> [i \in DOMAIN t.lets |-> SubstNameless(m, t.lets[i])],
         lbody |-> SubstNameless(m, t.lbody)]
    ELSE [t EXCEPT !.lambody = SubstNameless(m, @)]

\* out is, up to the names of bound variables, the image of term under m.
IsImage(m, term, out) == Nameless(out, << >>) = SubstNameless(m, Nameless(term, << >>))

---------------------------------------------------------------------------
(* Occurrences and subterms                                                *)

\* Every distinct subterm of t, t itself, the values of let bindings and the
\* sort terms of binding lists included.
RECURSIVE Subterms(_)
Subterms(t) ==
    {t} \cup
    (IF IsOp(t) THEN UNION {Subterms(t.args[i]) : i \in DOMAIN t.args}
     ELSE IF IsApp(t)
        THEN Subterms(t.func) \cup UNION {Subterms(t.fargs[i]) : i \in DOMAIN t.fargs}
     ELSE IF IsBinder(t)
        THEN Subterms(BodyOf(t))
             \cup UNION {Subterms(BindsOf(t)[i][2]) : i \in DOMAIN BindsOf(t)}
     ELSE {})

\* Every name bound by a binder somewhere in t.
BoundNamesDeep(t) ==
    UNION {BoundNames(BindsOf(u)) : u \in {v \in Subterms(t) : IsBinder(v)}}

\* The paths (child numbers from the root; 0 is a binder's body or an
\* application's function, i the i-th argument or the i-th bound value of a
\* let) at which the variable named n occurs free in t.
RECURSIVE FreeOcc(_, _)
FreeOcc(t, n) ==
    IF IsVar(t) THEN (IF t.var = n THEN {<< >>} ELSE {})
    ELSE IF IsOp(t) THEN
        UNION {{<<i>> \o q : q \in FreeOcc(t.args[i], n)} : i \in DOMAIN t.args}
    ELSE IF IsApp(t) THEN
        {<<0>> \o q : q \in FreeOcc(t.func, n)}
        \cup UNION {{<<i>> \o q : q \in FreeOcc(t.fargs[i], n)} : i \in DOMAIN t.fargs}
    ELSE IF IsBinder(t) THEN
        (IF n \in BoundNames(BindsOf(t)) THEN {}
         ELSE {<<0>> \o q : q \in FreeOcc(BodyOf(t), n)})
        \cup (IF IsLet(t)
              THEN UNION {{<<i>> \o q : q \in FreeOcc(t.lets[i][2], n)}
                          : i \in DOMAIN t.lets}
              ELSE {})
    ELSE {}

\* The subterm of t at path q.
RECURSIVE At(_, _)
At(t, q) ==
    IF q = << >> THEN t
    ELSE IF IsOp(t) THEN At(t.args[Head(q)], Tail(q))
    ELSE IF IsApp(t)
        THEN (IF Head(q) = 0 THEN At(t.func, Tail(q)) ELSE At(t.fargs[Head(q)], Tail(q)))
    ELSE IF IsBinder(t)
        THEN (IF Head(q) = 0 THEN At(BodyOf(t), Tail(q))
              ELSE At(BindsOf(t)[Head(q)][2], Tail(q)))
    ELSE NoTerm

NoDup(seq) == \A i, j \in DOMAIN seq : seq[i] = seq[j] => i = j

---------------------------------------------------------------------------
(* The calls the properties are about                                      *)

\* The object as new or single returned it: nothing applied, nothing inserted
\* since (as in run_test of the unit tests).
FreshlyBuilt(s) ==
    /\ s # NoSub
    /\ DOMAIN s.cache = {}
    /\ s.ever = {<<k, s.map[k]>> : k \in DOMAIN s.map}

\* The last call was apply on an object as its constructor returned it.
AppliedFresh == last.op = "apply" /\ FreshlyBuilt(last.pre)

\* The last call was apply of the one-pair substitution {x -> t}, x a variable.
AppliedSingle(x, t) == AppliedFresh /\ last.pre.map = (x :> t)

Differ(x, t) == SortOf(x) # SortOf(t)

---------------------------------------------------------------------------
(* C2 *)

\* C2: single, new and insert return Err(DifferentSorts) whenever a pair has
\* two different sorts; a failing insert leaves map, should_be_renamed and cache
\* as they were, and a failing constructor returns no object.
C2_DifferentSortsRejected ==
    /\ (last.op \in {"single", "insert"} /\ Differ(inPair[1], inPair[2])) => ~last.ok
    /\ (last.op = "new" /\ \E k \in DOMAIN last.map : Differ(k, last.map[k])) => ~last.ok
    /\ (last.op = "insert" /\ ~last.ok) =>
          /\ sub.map = last.pre.map
          /\ sub.sbr = last.pre.sbr
          /\ sub.cache = last.pre.cache
    /\ (last.op \in {"single", "new"} /\ ~last.ok) => sub = NoSub

\* An insert failed on an object that holds pairs and cached images.
C2_Witness ==
    /\ last.op = "insert" /\ ~last.ok
    /\ DOMAIN sub.map # {}
    /\ DOMAIN sub.cache # {}

---------------------------------------------------------------------------
(* C3 *)

\* What C3 asks of the binder inTerm and its image out under {x -> t}, for the
\* binding at position i, whose name y occurs free in t and is the one in scope.
CaptureAvoided(x, t, i, out) ==
    LET bl   == BindsOf(inTerm)
        nbl  == BindsOf(out)
        y    == bl[i][1]
        ny   == nbl[i][1]
        body == BodyOf(inTerm)
        nbody == BodyOf(out)
    IN /\ ny # y
       /\ \A q \in FreeOcc(body, y) :
             /\ IsVar(At(nbody, q)) /\ At(nbody, q).var = ny
             /\ q \in FreeOcc(nbody, ny)
             /\ PosIn(ny, NamesOf(nbl)) = i
       /\ x.var \notin BoundNames(bl) =>
             \A q \in FreeOcc(body, x.var) :
                /\ At(nbody, q) = t
                /\ \A v \in FreeVars(t) :
                      /\ v \notin BoundNames(nbl)
                      /\ \A r \in FreeOcc(t, v) : (q \o r) \in FreeOcc(nbody, v)

\* C3: when {x -> t} is applied to a binder that binds a name y free in t, the
\* image binds a renamed variable instead of y, every formerly bound occurrence
\* of y in the body is an occurrence of that renamed variable, and every t put
\* in place of x has its variables free.
C3_CaptureAvoidance ==
    \A x \in {inPair[1]} : \A t \in {inPair[2]} :
        (AppliedSingle(x, t) /\ IsVar(x) /\ x # t /\ IsBinder(inTerm)) =>
            \A i \in DOMAIN BindsOf(inTerm) :
                (/\ BindsOf(inTerm)[i][1] \in FreeVars(t)
                 /\ PosIn(BindsOf(inTerm)[i][1], NamesOf(BindsOf(inTerm))) = i)
                => CaptureAvoided(x, t, i, last.out)

---------------------------------------------------------------------------
(* C4 *)

\* C4: a fresh name chosen for a binding of the binder inTerm is none of the
\* names of should_be_renamed, differs from every other name of the resulting
\* binding list, and is no free variable of the binder.
C4_FreshNamesDistinct ==
    (AppliedFresh /\ IsBinder(inTerm)) =>
        \A i \in DOMAIN BindsOf(inTerm) :
            LET ny == BindsOf(last.out)[i][1]
            IN ny # BindsOf(inTerm)[i][1] =>
                  /\ ny \notin last.pre.sbr
                  /\ \A j \in DOMAIN BindsOf(last.out) :
                        j # i => BindsOf(last.out)[j][1] # ny
                  /\ ny \notin FreeVars(inTerm)

---------------------------------------------------------------------------
(* C5 *)

VarKeys(m) == \A k \in DOMAIN m : IsVar(k)

\* C5: apply returns the simultaneous-substitution image of its argument
\* (stated for the terms in which no bound name has to be renamed: there the
\* image is the term with every free occurrence of a key, in bodies and in the
\* values of let bindings, replaced by the key's image).
C5_SimultaneousImage ==
    (/\ AppliedFresh
     /\ VarKeys(last.pre.map)
     /\ BoundNamesDeep(inTerm) \cap last.pre.sbr = {})
    => IsImage(last.pre.map, inTerm, last.out)

---------------------------------------------------------------------------
(* C6 *)

\* C6: applying the empty substitution to any term returns the very same term,
\* no bound name renamed, whatever the variant and the nesting of binders.
C6_EmptyIsIdentity ==
    (last.op = "apply" /\ IsEmptySub(last.pre)) => (last.ok /\ last.out = inTerm)

\* The empty substitution was applied to a binder nested in a binder.
C6_Witness ==
    /\ last.op = "apply"
    /\ IsEmptySub(last.pre)
    /\ IsBinder(inTerm)
    /\ IsBinder(BodyOf(inTerm))
    /\ last.out = inTerm

---------------------------------------------------------------------------
(* C7 *)

\* The object holds reflexive pairs and never held anything else.
OnlyReflexive(s) ==
    /\ s # NoSub
    /\ s.ever # {}
    /\ \A p \in s.ever : p[1] = p[2]

\* C7: a substitution that consists only of the reflexive pair {x -> x} has an
\* empty should_be_renamed, and applying it to a binder that binds x renames no
\* binding and returns the term unchanged.
C7_ReflexiveRenamesNothing ==
    /\ OnlyReflexive(sub) => sub.sbr = {}
    /\ (last.op = "apply" /\ OnlyReflexive(last.pre) /\ IsBinder(inTerm)) =>
          /\ BindsOf(last.out) = BindsOf(inTerm)
          /\ last.out = inTerm

\* {x -> x} was applied to a binder that binds x.
C7_Witness ==
    /\ last.op = "apply"
    /\ OnlyReflexive(last.pre)
    /\ IsBinder(inTerm)
    /\ \E p \in last.pre.ever : AsVar(p[1]) \cap BoundNames(BindsOf(inTerm)) # {}
    /\ last.out = inTerm

---------------------------------------------------------------------------
(* C8 *)

ForallX3 ==
    QuantT("forall", << <<"x", IntS>>, <<"x@", IntS>>, <<"x@@", IntS>> >>,
           OpT("=", <<xI, IV("x@"), IV("x@@")>>))

ForallXRepeated ==
    QuantT("forall", << <<"x", IntS>>, <<"x@", IntS>>, <<"x@", IntS>> >>,
           OpT("=", <<xI, IV("x@"), IV("x@")>>))

Renamed3 == << <<"x@", IntS>>, <<"x@@", IntS>>, <<"x@@@", IntS>> >>

\* The positions of the binding list of inTerm whose name apply changed.
RenamedAt(out) == {i \in DOMAIN BindsOf(inTerm) : BindsOf(out)[i][1] # BindsOf(inTerm)[i][1]}

\* C8: bindings of one list that must be renamed to colliding names each get a
\* distinct name, by further '@' markers, left to right: under x -> y the list
\* (x, x@, x@@) becomes (x@, x@@, x@@@), and (x, x@, x@) becomes (x@, x@@, x@@@)
\* with both body occurrences of x@ turned into x@@@.
C8_CollidingRenames ==
    /\ (AppliedSingle(xI, yI) /\ inTerm = ForallX3) =>
          last.out = QuantT("forall", Renamed3,
                            OpT("=", <<IV("x@"), IV("x@@"), IV("x@@@")>>))
    /\ (AppliedSingle(xI, yI) /\ inTerm = ForallXRepeated) =>
          last.out = QuantT("forall", Renamed3,
                            OpT("=", <<IV("x@"), IV("x@@@"), IV("x@@@")>>))
    /\ (AppliedFresh /\ IsBinder(inTerm)) =>
          \A i, j \in RenamedAt(last.out) :
              i # j => BindsOf(last.out)[i][1] # BindsOf(last.out)[j][1]

\* x -> y was applied to the list (x, x@, x@) and all three were renamed.
C8_Witness ==
    /\ AppliedSingle(xI, yI)
    /\ inTerm = ForallXRepeated
    /\ RenamedAt(last.out) = {1, 2, 3}

---------------------------------------------------------------------------
(* C9 *)

\* The number of nodes of t as a tree: one per occurrence of a subterm.
RECURSIVE Occurrences(_)
RECURSIVE SumOcc(_, _)
SumOcc(seq, i) == IF i > Len(seq) THEN 0 ELSE Occurrences(seq[i]) + SumOcc(seq, i + 1)
Occurrences(t) ==
    1 + (IF IsOp(t) THEN SumOcc(t.args, 1)
         ELSE IF IsApp(t) THEN Occurrences(t.func) + SumOcc(t.fargs, 1)
         ELSE IF IsBinder(t)
            THEN Occurrences(BodyOf(t))
                 + SumOcc([i \in DOMAIN BindsOf(t) |-> BindsOf(t)[i][2]], 1)
         ELSE 0)

\* The images the last apply computed (the passes through its match).
StepsOfLast == Len(sub.log) - Len(last.pre.log)

\* C9 as stated: one Substitution computes the image of a term at most once,
\* and the steps of an apply are at most the distinct subterms of its argument.
C9_StepsBoundedBySubterms ==
    /\ sub # NoSub => NoDup(sub.log)
    /\ last.op = "apply" => StepsOfLast <= Cardinality(Subterms(inTerm))

\* C9, amended: one Substitution computes the image of a term at most once; a
\* term whose image it has is answered from the cache with no further step;
\* and the steps of an apply are at most the distinct subterms of its argument
\* when no name bound in the argument is in should_be_renamed (a renamed body
\* is a new term, traversed in addition).
C9_MemoizedOnce ==
    /\ sub # NoSub => NoDup(sub.log)
    /\ (last.op = "apply" /\ inTerm \in DOMAIN last.pre.cache) =>
          /\ sub = last.pre
          /\ last.out = last.pre.cache[inTerm]
    /\ (last.op = "apply" /\ BoundNamesDeep(inTerm) \cap last.pre.sbr = {}) =>
          StepsOfLast <= Cardinality(Subterms(inTerm))

\* A term with a shared subterm was rebuilt in fewer steps than it has
\* occurrences of subterms.
C9_Witness ==
    /\ AppliedFresh
    /\ IsOp(inTerm)
    /\ Len(inTerm.args) = 2
    /\ inTerm.args[1] = inTerm.args[2]
    /\ IsOp(inTerm.args[1])
    /\ StepsOfLast > 0
    /\ StepsOfLast <= Cardinality(Subterms(inTerm))
    /\ Cardinality(Subterms(inTerm)) < Occurrences(inTerm)

---------------------------------------------------------------------------
(* C10 *)

\* C10: apply never fails: neither the unwrap on the insert into the renaming
\* substitution nor the unwrap on the popped Choice binding panics.
C10_ApplyNeverFails ==
    last.op = "apply" => (last.ok /\ last.out # NoTerm)

\* apply renamed the binding of a Choice term.
C10_Witness ==
    /\ last.op = "apply"
    /\ last.ok
    /\ IsChoice(inTerm)
    /\ IsChoice(last.out)
    /\ last.out.choice[1] # inTerm.choice[1]

---------------------------------------------------------------------------
(* Proof commands and literals                                             *)

\* Indices are those of the code plus one: command 1 is commands[0], and the
\* root is command Len(proof).

Not(t) == OpT("not", <<t>>)

\* Rc<Term>::remove_all_negations: the pair (number of leading negations, the
\* term under them).
RECURSIVE RemoveAllNegations(_)
RemoveAllNegations(t) ==
    IF IsOp(t) /\ t.op = "not" /\ Len(t.args) = 1
    THEN Only({<<r[1] + 1, r[2]>> : r \in {RemoveAllNegations(t.args[1])}})
    ELSE <<0, t>>

RECURSIVE UnremoveAllNegations(_)
UnremoveAllNegations(l) ==
    IF l[1] <= 0 THEN l[2] ELSE Not(UnremoveAllNegations(<<l[1] - 1, l[2]>>))

Id(prefix, num) == [prefix |-> prefix, num |-> num]

AssumeC(id, term) == [kind |-> "assume", id |-> id, term |-> term]

StepC(id, clause, rule, premises, args, discharge) ==
    [kind |-> "step", id |-> id, clause |-> clause, rule |-> rule,
     premises |-> premises, args |-> args, discharge |-> discharge]

\* ProofCommand::Subproof: the commands between an anchor and its closing step.
SubproofC(commands) == [kind |-> "subproof", commands |-> commands]

\* ProofCommand::clause: a subproof has the clause of its closing step.
RECURSIVE ClauseOf(_)
ClauseOf(cmd) ==
    IF cmd.kind = "assume" THEN <<cmd.term>>
    ELSE IF cmd.kind = "subproof" THEN ClauseOf(cmd.commands[Len(cmd.commands)])
    ELSE cmd.clause

\* Term::Terminal
IsTerminal(t) == IsVar(t) \/ IsInt(t)

---------------------------------------------------------------------------
(* collect_units                                                           *)

\* A visit that records the command the first time it is seen.
VisitFirst(idx, st) ==
    IF idx \notin DOMAIN st.visited
    THEN [visited    |-> (idx :> 1) @@ st.visited,
          unit_nodes |-> Append(st.unit_nodes, idx)]
    ELSE st

\* st = [visited, unit_nodes]
Visit(idx, st) ==
    IF idx \notin DOMAIN st.visited
    THEN [st EXCEPT !.visited = (idx :> 0) @@ @]
    ELSE IF st.visited[idx] = 0
    THEN [visited    |-> [st.visited EXCEPT ![idx] = 1],
          unit_nodes |-> Append(st.unit_nodes, idx)]
    ELSE st

\* push_front of each premise in turn: the last premise ends up at the front.
RECURSIVE PushFront(_, _, _)
PushFront(q, premises, i) ==
    IF i > Len(premises) THEN q
    ELSE PushFront(<<premises[i][2]>> \o q, premises, i + 1)

\* The conditions under which the loop of collect_units visits the command.
IsVisited(cmd) ==
    IF cmd.kind = "step" THEN Len(cmd.clause) = 1
    ELSE IF cmd.kind = "assume"
    THEN \/ IsTerminal(cmd.term)
         \/ IsOp(cmd.term) /\ Len(cmd.term.args) = 1
    ELSE FALSE

---------------------------------------------------------------------------
(* find and fix_proof                                                      *)

\* Faulty variant of Find: the node itself is returned, redirected or not.
FindSelf(i, act) == [r |-> i, actual |-> act]

\* Returns [r (the representative), actual (the array after path compression)].
RECURSIVE Find(_, _)
Find(i, act) ==
    IF act[i] = i THEN [r |-> i, actual |-> act]
    ELSE Only({[r |-> f.r, actual |-> [f.actual EXCEPT ![i] = f.r]]
               : f \in {Find(act[i], act)}})

RECURSIVE FixProof(_, _, _, _)
RECURSIVE FixPremises(_, _, _, _, _)
RECURSIVE Redirect(_, _, _, _, _)

\* The first loop of fix_proof: the premises, in order.
FixPremises(premises, i, prf, d, act) ==
    IF i > Len(premises) THEN act
    ELSE FixPremises(premises, i + 1, prf, d,
                     Only({a : a \in {FixProof(premises[i][2], prf, d, act)}}))

\* The last loop of fix_proof: every premise that is not dnm, in order, is
\* written to actual[curr].
Redirect(curr, premises, i, d, act) ==
    IF i > Len(premises) THEN act
    ELSE IF d[premises[i][2]] THEN Redirect(curr, premises, i + 1, d, act)
    ELSE Only({Redirect(curr, premises, i + 1, d, [f.actual EXCEPT ![curr] = f.r])
               : f \in {Find(premises[i][2], act)}})

\* Returns the array actual after fix_proof(curr, ...).
FixProof(curr, prf, d, act) ==
    IF d[curr] THEN act
    ELSE IF prf[curr].kind = "step" THEN
        Only({IF \E i \in DOMAIN prf[curr].premises : d[prf[curr].premises[i][2]]
              THEN Redirect(curr, prf[curr].premises, 1, d, a)
              ELSE a
              : a \in {FixPremises(prf[curr].premises, 1, prf, d, act)}})
    ELSE act

---------------------------------------------------------------------------
(* get_pivots                                                              *)

TrueT == Var("true", "Bool")

\* An elimination that looks only one negation below.
TryEliminateBelow(pv, below, above) ==
    IF below \in DOMAIN pv THEN [pv EXCEPT ![below] = TRUE] ELSE pv

\* try_eliminate(below) || try_eliminate(above) on the map pivots.
TryEliminate(pv, below, above) ==
    IF below \in DOMAIN pv THEN [pv EXCEPT ![below] = TRUE]
    ELSE IF above \in DOMAIN pv THEN [pv EXCEPT ![above] = TRUE]
    ELSE pv

\* The body of the inner loop for one term of a premise clause.
\* st = [wc (working_clause), pv (pivots), elim (eliminated_clause_pivot)]
PivotTerm(conclusion, term, st) ==
    LET l     == RemoveAllNegations(term)
        below == <<l[1] - 1, l[2]>>
        above == <<l[1] + 1, l[2]>>
    IN IF l \in conclusion /\ l \notin st.wc
       THEN [st EXCEPT !.wc = @ \cup {l}]
       ELSE IF ~st.elim /\ (below \in DOMAIN st.pv \/ above \in DOMAIN st.pv)
       THEN [wc |-> st.wc, pv |-> TryEliminate(st.pv, below, above), elim |-> TRUE]
       ELSE IF l \in conclusion
       THEN [st EXCEPT !.wc = @ \cup {l}]
       ELSE [st EXCEPT !.pv = IF l \in DOMAIN @ THEN @ ELSE (l :> FALSE) @@ @]

RECURSIVE PivotTerms(_, _, _, _)
PivotTerms(conclusion, clause, i, st) ==
    IF i > Len(clause) THEN st
    ELSE PivotTerms(conclusion, clause, i + 1,
                    Only({n : n \in {PivotTerm(conclusion, clause[i], st)}}))

RECURSIVE PivotPremises(_, _, _, _)
PivotPremises(conclusion, premises, i, st) ==
    IF i > Len(premises) THEN st
    ELSE PivotPremises(conclusion, premises, i + 1,
                       Only({[wc |-> n.wc, pv |-> n.pv, elim |-> FALSE]
                             : n \in {PivotTerms(conclusion, premises[i], 1,
                                                 [st EXCEPT !.elim = FALSE])}}))

\* conclusion: a clause; premises: a sequence of clauses.  Returns the set of
\* pivots the final loop can return (it returns the first entry marked true that
\* the iteration of the hash map meets); the empty set stands for the panic.
GetPivots(conclusion, premises) ==
    IF /\ conclusion = << >>
       /\ Len(premises) = 1
       /\ premises[1] = <<Not(TrueT)>>
    THEN {}
    ELSE Only({{l \in DOMAIN st.pv : st.pv[l]}
               : st \in {PivotPremises({RemoveAllNegations(conclusion[i])
                                          : i \in DOMAIN conclusion},
                                       premises, 1,
                                       [wc |-> {}, pv |-> << >>, elim |-> FALSE])}})

---------------------------------------------------------------------------
(* binary_resolution (rules/resolution.rs)                                 *)

\* The first position of next that holds the literal l, 0 when none does.
FirstOf(l, next) ==
    IF \E i \in DOMAIN next : RemoveAllNegations(next[i]) = l
    THEN CHOOSE i \in DOMAIN next :
            /\ RemoveAllNegations(next[i]) = l
            /\ \A j \in 1..(i - 1) : RemoveAllNegations(next[j]) # l
    ELSE 0

\* The resolvent: the literals of current and of next without the pivot
\* occurrence in the one and its negation in the other.
BinaryResolution(current, next, pivot, isPivotInCurrent) ==
    LET negated == <<pivot[1] + 1, pivot[2]>>
        inCur   == IF isPivotInCurrent THEN pivot ELSE negated
        inNext  == IF isPivotInCurrent THEN negated ELSE pivot
    IN (current \ {inCur})
       \cup {RemoveAllNegations(next[i]) : i \in DOMAIN next \ {FirstOf(inNext, next)}}

---------------------------------------------------------------------------
(* new_binary_resolution_from_old, add_node, binary_resolution_with_unit   *)

\* The literals of a rebuilt command, as current/current_vec hold them.
LiteralsOf(cmd) ==
    {RemoveAllNegations(ClauseOf(cmd)[i]) : i \in DOMAIN ClauseOf(cmd)}

\* The clauses `for i in current { new_clause.push(unremove...) }` can build:
\* the hash set is iterated in an order the code does not choose.
ClauseOrders(S) ==
    {[i \in 1..Cardinality(S) |-> UnremoveAllNegations(f[i])]
     : f \in {g \in [1..Cardinality(S) -> S] :
                \A i, j \in 1..Cardinality(S) : g[i] = g[j] => i = j}}

PanicOutcome == [panic |-> TRUE, clause |-> << >>]

ClauseOutcomes(S) == {[panic |-> FALSE, clause |-> c] : c \in ClauseOrders(S)}

\* The clauses the call can return, or the panic of get_pivots.
NewBinaryResolutionFromOld(left_parent, right_parent, cmds, curr_step) ==
    LET current == LiteralsOf(cmds[left_parent])
        next    == ClauseOf(cmds[right_parent])
    IN UNION {
         IF pivots = {} THEN {PanicOutcome}
         ELSE UNION {
                ClauseOutcomes(
                    BinaryResolution(current, next, <<0, pv[2]>>,
                                     ~\E l \in current : l[2] = pv[2] /\ l[1] % 2 = 1))
                : pv \in pivots}
         : pivots \in {GetPivots(curr_step.clause,
                                 <<ClauseOf(cmds[left_parent]), next>>)}}

\* The right parent is the unit node.
BinaryResolutionWithUnit(left_parent, right_parent, cmds) ==
    LET current == LiteralsOf(cmds[left_parent])
        unit    == cmds[right_parent]
    IN IF unit.kind = "step"
       THEN IF unit.clause = << >> THEN {PanicOutcome}
            ELSE ClauseOutcomes(
                    BinaryResolution(current, unit.clause,
                                     RemoveAllNegations(unit.clause[1]), FALSE))
       ELSE UNION {
              ClauseOutcomes(
                  BinaryResolution(current, <<unit.term>>, <<0, inner>>,
                                   ~\E l \in current : l[2] = inner /\ l[1] > 0))
              : inner \in {RemoveAllNegations(unit.term)[2]}}

\* The state add_node works on: st = [cmds (new_commands), added, panic].
\* A call returns [st, idx]; the operators below return the set of the
\* outcomes the call can have.
Pushed(st, curr, cmd) ==
    [st  |-> [cmds  |-> Append(st.cmds, cmd),
              added |-> [st.added EXCEPT ![curr] = Len(st.cmds) + 1],
              panic |-> FALSE],
     idx |-> Len(st.cmds) + 1]

Panicked(st) == [st |-> [st EXCEPT !.panic = TRUE], idx |-> 0]

\* Faulty variant of NewId: the number is the length before the push.
NewIdOfLength(prefix, cmds) == Id(prefix, Len(cmds))

\* The id of the command about to be pushed on cmds: the prefix followed by
\* (new_commands.len() + 1).to_string().
NewId(prefix, cmds) == Id(prefix, Len(cmds) + 1)

\* The index usize::MAX (2^64 - 1) in the numbering of the model, which counts
\* from 1; it stands for any index beyond the end of new_commands.
WrappedIdx == 2147483647

\* A command that is neither a step nor an assume: nothing is pushed, and
\* new_commands.len() - 1 is recorded and returned.  On an empty new_commands
\* the subtraction overflows: a panic in a build with overflow checks, a
\* wrap-around to usize::MAX in a build without.
NotPushed(st, curr) ==
    IF st.cmds = << >>
    THEN {Panicked(st),
          [st  |-> [st EXCEPT !.added = [@ EXCEPT ![curr] = WrappedIdx]],
           idx |-> WrappedIdx]}
    ELSE {[st  |-> [st EXCEPT !.added = [@ EXCEPT ![curr] = Len(st.cmds)]],
           idx |-> Len(st.cmds)]}

RECURSIVE AddNode(_, _, _, _)
RECURSIVE AddPremises(_, _, _, _, _, _)

\* The loop over the premises of a step: [st, premises (new_premises)].
AddPremises(premises, i, old_proof, act, st, new_premises) ==
    IF st.panic \/ i > Len(premises)
    THEN {[st |-> st, premises |-> new_premises]}
    ELSE UNION {AddPremises(premises, i + 1, old_proof, act, r.st,
                            Append(new_premises, <<0, r.idx>>))
                : r \in AddNode(act[premises[i][2]], old_proof, act, st)}

\* Faulty variant of RebuiltStep: the arguments and the discharge of the
\* original step are copied.
RebuiltStepCopying(curr, step, r) ==
    IF r.st.panic THEN {Panicked(r.st)}
    ELSE IF step.rule = "resolution"
    THEN IF \/ Len(r.premises) < 2
            \/ r.premises[1][2] \notin DOMAIN r.st.cmds
            \/ r.premises[2][2] \notin DOMAIN r.st.cmds
         THEN {Panicked(r.st)}
         ELSE {IF o.panic THEN Panicked(r.st)
               ELSE Pushed(r.st, curr,
                           StepC(NewId("t", r.st.cmds), o.clause, step.rule,
                                 r.premises, step.args, step.discharge))
               : o \in NewBinaryResolutionFromOld(r.premises[1][2], r.premises[2][2],
                                                  r.st.cmds, step)}
    ELSE {Pushed(r.st, curr,
                 StepC(NewId("t", r.st.cmds), step.clause, step.rule,
                       r.premises, step.args, step.discharge))}

\* The clause and the push of a step whose premises have been added.
RebuiltStep(curr, step, r) ==
    IF r.st.panic THEN {Panicked(r.st)}
    ELSE IF step.rule = "resolution"
    THEN IF \/ Len(r.premises) < 2
            \/ r.premises[1][2] \notin DOMAIN r.st.cmds
            \/ r.premises[2][2] \notin DOMAIN r.st.cmds
         THEN {Panicked(r.st)}
         ELSE {IF o.panic THEN Panicked(r.st)
               ELSE Pushed(r.st, curr,
                           StepC(NewId("t", r.st.cmds), o.clause, step.rule,
                                 r.premises, << >>, << >>))
               : o \in NewBinaryResolutionFromOld(r.premises[1][2], r.premises[2][2],
                                                  r.st.cmds, step)}
    ELSE {Pushed(r.st, curr,
                 StepC(NewId("t", r.st.cmds), step.clause, step.rule,
                       r.premises, << >>, << >>))}

AddNode(curr, old_proof, act, st) ==
    IF st.panic THEN {[st |-> st, idx |-> 0]}
    ELSE IF st.added[curr] # 0 THEN {[st |-> st, idx |-> st.added[curr]]}
    ELSE IF old_proof[curr].kind = "step"
    THEN UNION {RebuiltStep(curr, old_proof[curr], r)
                : r \in AddPremises(old_proof[curr].premises, 1, old_proof, act,
                                    st, << >>)}
    ELSE IF old_proof[curr].kind = "assume"
    THEN {Pushed(st, curr,
                 AssumeC(NewId("h", st.cmds), old_proof[curr].term))}
    ELSE NotPushed(st, curr)

---------------------------------------------------------------------------
(* The proofs compress_proof is given                                      *)

MaxRes == 2       \* resolution steps on top of the leaves
MaxPremises == 3  \* premises of a resolution step

aB == Var("a", "Bool")
bB == Var("b", "Bool")
cB == Var("c", "Bool")
eqPQ == OpT("=", <<pB, qB>>)

Hole(num, clause) == StepC(Id("t", num), clause, "hole", << >>, <<"arg">>, << >>)

Resolution(num, clause, premises) ==
    StepC(Id("t", num), clause, "resolution",
          [i \in DOMAIN premises |-> <<0, premises[i]>>], << >>, << >>)

\* a, (not a) \/ b, (not a) \/ (not b) \/ c, (not c)
Leaves ==
    << AssumeC(Id("h", 1), aB),
       Hole(2, <<Not(aB), bB>>),
       Hole(3, <<Not(aB), Not(bB), cB>>),
       AssumeC(Id("h", 4), Not(cB)) >>

Complementary(t, u) == t = Not(u) \/ u = Not(t)

\* The resolvent of the clauses cur and next when exactly one literal of cur
\* has its complement in next: cur without it, then what next adds.
ResolveTwo(cur, next) ==
    LET pivots == {i \in DOMAIN cur : \E j \in DOMAIN next : Complementary(cur[i], next[j])}
    IN IF Cardinality(pivots) # 1 THEN [ok |-> FALSE, clause |-> << >>]
       ELSE LET p    == cur[CHOOSE i \in pivots : TRUE]
                left == SelectSeq(cur, LAMBDA t : t # p)
            IN [ok     |-> TRUE,
                clause |-> left \o SelectSeq(next, LAMBDA t :
                                        ~Complementary(t, p) /\ t \notin SeqRange(left))]

\* A derivation is the sequence of the resolution steps made on top of the
\* leaves, each [pl (the premise list), clause]; step j is command
\* Len(Leaves) + j of the proof.
ClauseAt(d, i) ==
    IF i <= Len(Leaves) THEN ClauseOf(Leaves[i]) ELSE d[i - Len(Leaves)].clause

\* The steps of d that no later step of d has for a premise, as commands.
Dead(d) ==
    {Len(Leaves) + j : j \in {i \in DOMAIN d :
        \A n \in (i + 1)..Len(d) : (Len(Leaves) + i) \notin SeqRange(d[n].pl)}}

\* The chains cs, each by one more command whose clause resolves with the
\* resolvent so far on exactly one literal; a chain is kept when the places it
\* has left, up to MaxPremises, can still take the commands of need.
ExtendChains(d, cs, need) ==
    UNION {{[pl |-> Append(c.pl, x.i), clause |-> x.res.clause]
            : x \in {y \in {[i |-> i, res |-> ResolveTwo(c.clause, ClauseAt(d, i))]
                            : i \in 1..(Len(Leaves) + Len(d)) \ SeqRange(c.pl)} :
                       /\ y.res.ok
                       /\ Cardinality(need \ (SeqRange(c.pl) \cup {y.i}))
                             <= MaxPremises - Len(c.pl) - 1}}
           : c \in cs}

\* The chains of k to MaxPremises commands that extend those of cs.
RECURSIVE ChainsFrom(_, _, _, _)
ChainsFrom(d, k, cs, need) ==
    IF k > MaxPremises THEN {}
    ELSE UNION {n \cup ChainsFrom(d, k + 1, n, need) : n \in {ExtendChains(d, cs, need)}}

\* The premise lists of two to MaxPremises distinct commands, need among them,
\* whose chain resolution, in the order of the list, succeeds at every stage,
\* each with its resolvent.
Chains(d, need) ==
    {c \in ChainsFrom(d, 2,
                      {[pl |-> <<i>>, clause |-> ClauseAt(d, i)]
                       : i \in 1..(Len(Leaves) + Len(d))},
                      need) :
        need \subseteq SeqRange(c.pl)}

\* The derivations of k steps.
RECURSIVE Derivations(_)
Derivations(k) ==
    IF k = 0 THEN {<< >>}
    ELSE UNION {{Append(d, c) : c \in Chains(d, {})} : d \in Derivations(k - 1)}

\* The derivations of k steps in which every step but the last is a premise of
\* a later step.
Connected(k) ==
    IF k = 0 THEN {<< >>}
    ELSE UNION {{Append(d, c) : c \in Chains(d, Dead(d))} : d \in Derivations(k - 1)}

ProofOf(d) ==
    Leaves \o [j \in DOMAIN d |-> Resolution(Len(Leaves) + j, d[j].clause, d[j].pl)]

\* A subproof that assumes a, derives b and closes with (not a) \/ b.
ClosedSubproof ==
    SubproofC(<< AssumeC(Id("t1.h", 1), aB),
                 Hole(2, <<bB>>),
                 StepC(Id("t", 3), <<Not(aB), bB>>, "subproof", << >>, << >>,
                       <<<<1, 1>>>>) >>)

\* Proofs over other shapes of command: an assume whose term is an application
\* of two arguments, used twice; a resolution step with a single premise; a
\* unit used by one step that two later steps use; two units used by the same
\* two steps, both assumes or one a resolution step of one premise; a step
\* that carries arguments and a discharge; a step that has a subproof as its
\* first or as its second premise.
OtherProofs ==
    { << AssumeC(Id("h", 1), eqPQ),
         Hole(2, <<Not(eqPQ), aB>>),
         Hole(3, <<Not(eqPQ), Not(aB), bB>>),
         Resolution(4, <<aB>>, <<1, 2>>),
         Resolution(5, <<bB>>, <<1, 3, 4>>) >>,
      << Hole(1, <<Not(Not(aB))>>),
         Resolution(2, <<aB>>, <<1>>) >>,
      << AssumeC(Id("h", 1), aB),
         Hole(2, <<Not(aB), bB>>),
         Hole(3, <<Not(bB), cB>>),
         Hole(4, <<Not(bB), Not(cB)>>),
         Resolution(5, <<bB>>, <<1, 2>>),
         Resolution(6, <<cB>>, <<5, 3>>),
         Resolution(7, << >>, <<4, 5, 6>>) >>,
      << AssumeC(Id("h", 1), aB),
         AssumeC(Id("h", 2), bB),
         Hole(3, <<Not(aB), Not(bB), cB>>),
         Resolution(4, <<cB>>, <<1, 2, 3>>),
         Hole(5, <<Not(aB), Not(bB), Not(cB)>>),
         Resolution(6, <<Not(cB)>>, <<1, 2, 5>>),
         Resolution(7, << >>, <<4, 6>>) >>,
      << AssumeC(Id("h", 1), aB),
         Hole(2, <<Not(Not(bB))>>),
         Resolution(3, <<bB>>, <<2>>),
         Hole(4, <<Not(aB), Not(bB), cB>>),
         Hole(5, <<Not(aB), Not(bB), Not(cB)>>),
         Resolution(6, <<cB>>, <<3, 1, 4>>),
         Resolution(7, <<Not(cB)>>, <<3, 1, 5>>),
         Resolution(8, << >>, <<6, 7>>) >>,
      << AssumeC(Id("h", 1), aB),
         StepC(Id("t", 2), <<Not(aB), bB>>, "hole", << >>, <<"arg">>, <<<<0, 1>>>>),
         Resolution(3, <<bB>>, <<1, 2>>) >> }
    \cup {<<ClosedSubproof, AssumeC(Id("h", 2), aB),
             StepC(Id("t", 3), <<bB>>, rule, <<<<0, 1>>, <<0, 2>>>>, << >>, << >>)>>
           : rule \in {"resolution", "th_resolution"}}
    \cup {<<AssumeC(Id("h", 1), aB), ClosedSubproof,
             StepC(Id("t", 3), <<bB>>, rule, <<<<0, 1>>, <<0, 2>>>>, << >>, << >>)>>
           : rule \in {"resolution", "th_resolution"}}

Proofs == {ProofOf(d) : d \in UNION {Connected(k) : k \in 0..MaxRes}} \cup OtherProofs

---------------------------------------------------------------------------
(* compress_proof                                                          *)

SubstIdle ==
    /\ sub = NoSub
    /\ last = [op |-> "none", ok |-> TRUE, out |-> NoTerm, pre |-> NoSub]
    /\ inTerm = xI
    /\ inPair = <<xI, xI>>

InitCompress ==
    /\ SubstIdle
    /\ proof \in Proofs
    /\ phase = "start"
    /\ queue = << >>
    /\ visited = << >>
    /\ unit_nodes = << >>
    /\ dnm = << >>
    /\ actual = << >>
    /\ new_commands = << >>
    /\ added = << >>
    /\ next_unit = 1
    /\ emitted = << >>
    /\ stdout = << >>
    /\ RulesIdle

\* collect_units, up to the loop: the root is queued.
CollectStart ==
    /\ phase = "start"
    /\ phase' = "collect"
    /\ queue' = <<Len(proof)>>
    /\ UNCHANGED <<proof, visited, unit_nodes, dnm, actual, new_commands, added,
                   next_unit, emitted, stdout, substVars, ruleVars, benchVars>>

\* One iteration of the loop of collect_units.
CollectStep ==
    /\ phase = "collect"
    /\ queue # << >>
    /\ LET curr == Head(queue)
           cmd  == proof[curr]
       IN /\ queue' = IF cmd.kind = "step"
                      THEN PushFront(Tail(queue), cmd.premises, 1)
                      ELSE Tail(queue)
          /\ \E st \in {IF IsVisited(cmd)
                        THEN Visit(curr, [visited |-> visited, unit_nodes |-> unit_nodes])
                        ELSE [visited |-> visited, unit_nodes |-> unit_nodes]} :
                /\ visited' = st.visited
                /\ unit_nodes' = st.unit_nodes
    /\ UNCHANGED <<proof, phase, dnm, actual, new_commands, added, next_unit,
                   emitted, stdout, substVars, ruleVars, benchVars>>

\* collect_units returns; dnm and actual are set up and fix_proof runs on the root.
FixProofRoot ==
    /\ phase = "collect"
    /\ queue = << >>
    /\ \E d \in {[i \in DOMAIN proof |-> i \in SeqRange(unit_nodes)]} :
          /\ dnm' = d
          /\ actual' = FixProof(Len(proof), proof, d, [i \in DOMAIN proof |-> i])
    /\ phase' = "rebuild"
    /\ UNCHANGED <<proof, queue, visited, unit_nodes, new_commands, added,
                   next_unit, emitted, stdout, substVars, ruleVars, benchVars>>

\* println!(text, shows...): one line of the standard output.
Line(text, shows) == [text |-> text, shows |-> shows]

\* The lines binary_resolution_with_unit prints on the way to the outcome o.
WithUnitLines(left_parent, right_parent, cmds, o) ==
    LET current == LiteralsOf(cmds[left_parent])
        unit    == cmds[right_parent]
    IN (IF cmds[left_parent].kind = "assume"
        THEN <<Line("O step_l e um assume com", <<cmds[left_parent].term>>)>>
        ELSE << >>)
       \o (IF unit.kind = "step"
           THEN <<Line("Vou tentar resolution com", <<current, unit.clause>>)>>
           ELSE <<Line("Left term", <<current>>),
                  Line("Right term", <<unit.term>>),
                  Line("Pivot", <<0, RemoveAllNegations(unit.term)[2]>>),
                  Line("Resolution conclusion",
                       <<{RemoveAllNegations(o.clause[n]) : n \in DOMAIN o.clause}>>)>>)

\* add_node on the root.
Reconstruct ==
    /\ phase = "rebuild"
    /\ \E r \in AddNode(Len(proof), proof, actual,
                        [cmds |-> << >>, added |-> [i \in DOMAIN proof |-> 0],
                         panic |-> FALSE]) :
          /\ new_commands' = r.st.cmds
          /\ added' = r.st.added
          /\ phase' = IF r.st.panic THEN "panic" ELSE "reinsert"
          /\ stdout' = stdout
                       \o <<Line("Added", <<[i \in DOMAIN proof |-> 0]>>),
                            Line("Comecei a fazer a nova prova", << >>)>>
                       \o (IF r.st.panic THEN << >>
                           ELSE <<Line("Agora vou comecar o reinsert_units", << >>)>>)
    /\ UNCHANGED <<proof, queue, visited, unit_nodes, dnm, actual, next_unit,
                   emitted, substVars, ruleVars, benchVars>>

\* One iteration of the loop over unit_nodes.
ReinsertUnit ==
    /\ phase = "reinsert"
    /\ next_unit <= Len(unit_nodes)
    /\ \E r \in AddNode(unit_nodes[next_unit], proof, actual,
                        [cmds |-> new_commands, added |-> added, panic |-> FALSE]) :
          IF r.st.panic
          THEN /\ new_commands' = r.st.cmds
               /\ added' = r.st.added
               /\ phase' = "panic"
               /\ stdout' = Append(stdout, Line("Vai adicionar o",
                                                <<proof[unit_nodes[next_unit]]>>))
          ELSE \E o \in BinaryResolutionWithUnit(Len(new_commands), Len(r.st.cmds),
                                                 r.st.cmds) :
                  /\ added' = r.st.added
                  /\ new_commands' =
                        IF o.panic THEN r.st.cmds
                        ELSE Append(r.st.cmds,
                                    StepC(NewId("t", r.st.cmds), o.clause,
                                          "resolution",
                                          << <<0, Len(new_commands)>>,
                                             <<0, Len(r.st.cmds)>> >>,
                                          << >>, << >>))
                  /\ phase' = IF o.panic THEN "panic" ELSE "reinsert"
                  /\ stdout' = stdout
                               \o <<Line("Vai adicionar o", <<proof[unit_nodes[next_unit]]>>),
                                    Line("", << >>)>>
                               \o WithUnitLines(Len(new_commands), Len(r.st.cmds),
                                                r.st.cmds, o)
    /\ next_unit' = next_unit + 1
    /\ UNCHANGED <<proof, queue, visited, unit_nodes, dnm, actual, emitted,
                   substVars, ruleVars, benchVars>>

\* The loop is over: the new proof commands are printed.
Emit ==
    /\ phase = "reinsert"
    /\ next_unit > Len(unit_nodes)
    /\ emitted' = new_commands
    /\ phase' = "done"
    /\ UNCHANGED <<proof, queue, visited, unit_nodes, dnm, actual, new_commands,
                   added, next_unit, stdout, substVars, ruleVars, benchVars>>

NextCompress ==
    \/ CollectStart
    \/ CollectStep
    \/ FixProofRoot
    \/ Reconstruct
    \/ ReinsertUnit
    \/ Emit

SpecCompress == InitCompress /\ [][NextCompress]_vars

---------------------------------------------------------------------------
(* C1 *)

AtomsOf(cmds) == UNION {{l[2] : l \in LiteralsOf(cmds[i])} : i \in DOMAIN cmds}

\* The literal t under the truth assignment v of the atoms.
LitHolds(v, t) ==
    LET l == RemoveAllNegations(t)
    IN IF l[1] % 2 = 0 THEN v[l[2]] ELSE ~v[l[2]]

ClauseHolds(v, clause) == \E i \in DOMAIN clause : LitHolds(v, clause[i])

\* Every assignment that satisfies the clauses of the premises step k of cmds
\* lists satisfies the clause of step k.
FollowsFromPremises(cmds, k) ==
    \A v \in [AtomsOf(cmds) -> BOOLEAN] :
        (\A i \in DOMAIN cmds[k].premises :
            ClauseHolds(v, ClauseOf(cmds[cmds[k].premises[i][2]])))
        => ClauseHolds(v, cmds[k].clause)

SameLiterals(c, d) == SeqRange(c) = SeqRange(d)

\* C1: when compress_proof completes, the last emitted command has the clause
\* of the last command of the original proof, up to the order of the literals,
\* and the clause of every emitted resolution step follows from the clauses of
\* the premises the step lists.
C1_CompressionSound ==
    phase = "done" =>
        /\ emitted # << >>
        /\ SameLiterals(ClauseOf(emitted[Len(emitted)]), ClauseOf(proof[Len(proof)]))
        /\ \A k \in DOMAIN emitted :
              (emitted[k].kind = "step" /\ emitted[k].rule = "resolution")
              => FollowsFromPremises(emitted, k)

---------------------------------------------------------------------------
(* C11 *)

\* The steps of prf that list command i among their premises.
Consumers(prf, i) ==
    {k \in DOMAIN prf : prf[k].kind = "step"
                        /\ \E n \in DOMAIN prf[k].premises : prf[k].premises[n][2] = i}

\* The commands of prf the root reaches through premises, the root included.
RECURSIVE ReachableFrom(_, _)
ReachableFrom(prf, S) ==
    IF \A k \in S : \A i \in 1..k : (k \in Consumers(prf, i)) => i \in S
    THEN S
    ELSE ReachableFrom(prf, S \cup {i \in DOMAIN prf : \E k \in S : k \in Consumers(prf, i)})

Reachable(prf) == ReachableFrom(prf, {Len(prf)})

\* The commands C11 says collect_units returns.
SharedUnits(prf) ==
    {i \in Reachable(prf) : /\ prf[i].kind \in {"step", "assume"}
                            /\ Len(ClauseOf(prf[i])) = 1
                            /\ Cardinality(Consumers(prf, i)) >= 2}

CollectUnitsReturned == phase \notin {"idle", "start", "collect"}

\* C11: collect_units returns exactly the commands that are reachable from the
\* root, have a clause of one literal and are a premise of at least two
\* distinct steps, each once.
C11_ExactlySharedUnits ==
    CollectUnitsReturned =>
        /\ SeqRange(unit_nodes) = SharedUnits(proof)
        /\ NoDup(unit_nodes)

---------------------------------------------------------------------------
(* C12 *)

\* The loop of collect_units run to its end from queue q: the returned list.
RECURSIVE CollectLoop(_, _, _)
CollectLoop(prf, q, st) ==
    IF q = << >> THEN st.unit_nodes
    ELSE CollectLoop(prf,
                     IF prf[Head(q)].kind = "step"
                     THEN PushFront(Tail(q), prf[Head(q)].premises, 1)
                     ELSE Tail(q),
                     Only({IF IsVisited(prf[Head(q)]) THEN Visit(Head(q), s0) ELSE s0
                           : s0 \in {st}}))

CollectUnits(prf) ==
    CollectLoop(prf, <<Len(prf)>>, [visited |-> << >>, unit_nodes |-> << >>])

\* The sequence q without its element at position n.
RemoveAt(q, n) == SubSeq(q, 1, n - 1) \o SubSeq(q, n + 1, Len(q))

\* collect_units with the traversal order left open: any pending command is
\* taken next (the head, as the code does, the last, as a queue would, or any
\* other), and its premises become pending.
TraverseStart ==
    /\ phase = "start"
    /\ phase' = "traverse"
    /\ queue' = <<Len(proof)>>
    /\ UNCHANGED <<proof, visited, unit_nodes, dnm, actual, new_commands, added,
                   next_unit, emitted, stdout, substVars, ruleVars, benchVars>>

TraverseStep ==
    /\ phase = "traverse"
    /\ \E n \in DOMAIN queue :
          LET curr == queue[n]
              cmd  == proof[curr]
          IN /\ queue' = IF cmd.kind = "step"
                         THEN PushFront(RemoveAt(queue, n), cmd.premises, 1)
                         ELSE RemoveAt(queue, n)
             /\ \E st \in {IF IsVisited(cmd)
                           THEN Visit(curr, [visited |-> visited, unit_nodes |-> unit_nodes])
                           ELSE [visited |-> visited, unit_nodes |-> unit_nodes]} :
                   /\ visited' = st.visited
                   /\ unit_nodes' = st.unit_nodes
    /\ UNCHANGED <<proof, phase, dnm, actual, new_commands, added, next_unit,
                   emitted, stdout, substVars, ruleVars, benchVars>>

TraverseReturn ==
    /\ phase = "traverse"
    /\ queue = << >>
    /\ phase' = "returned"
    /\ UNCHANGED <<proof, queue, visited, unit_nodes, dnm, actual, new_commands,
                   added, next_unit, emitted, stdout, substVars, ruleVars, benchVars>>

NextTraverse == TraverseStart \/ TraverseStep \/ TraverseReturn

\* The loop is sequential code: it keeps running while a step is possible.
SpecTraverse == InitCompress /\ [][NextTraverse]_vars /\ WF_vars(NextTraverse)

RECURSIVE SumSeq(_, _)
SumSeq(seq, i) == IF i > Len(seq) THEN 0 ELSE seq[i] + SumSeq(seq, i + 1)

\* The number of premise paths from the root to command i.
RECURSIVE Paths(_, _)
Paths(prf, i) ==
    IF i = Len(prf) THEN 1
    ELSE SumSeq([k \in 1..(Len(prf) - i) |->
                   IF prf[i + k].kind = "step"
                   THEN Paths(prf, i + k)
                        * Cardinality({n \in DOMAIN prf[i + k].premises
                                         : prf[i + k].premises[n][2] = i})
                   ELSE 0], 1)

\* C12: whatever the order in which pending commands are taken, collect_units
\* returns the same set of nodes (the visited commands with two or more premise
\* paths from the root, which is the set the code's own order returns), and
\* the traversal terminates.
C12_OrderIndependent ==
    /\ [](phase = "returned" =>
            /\ SeqRange(unit_nodes) = SeqRange(CollectUnits(proof))
            /\ SeqRange(unit_nodes) =
                  {i \in DOMAIN proof : IsVisited(proof[i]) /\ Paths(proof, i) >= 2})
    /\ <>(phase = "returned")

\* A run that took the commands in another order than the code and returned
\* the units in another order.
C12_Witness ==
    /\ phase = "returned"
    /\ Len(unit_nodes) >= 2
    /\ unit_nodes # CollectUnits(proof)

---------------------------------------------------------------------------
(* C13 *)

\* No command of prf is a premise of more than one step.
NoSharedPremise(prf) == \A i \in DOMAIN prf : Cardinality(Consumers(prf, i)) <= 1

\* The emitted command that stands for command i of the proof keeps its rule and
\* its clause (up to the order of the literals), and its premises are the
\* emitted commands that stand for the premises of i, all emitted before it.
SameCommand(i) ==
    /\ added[i] \in DOMAIN emitted
    /\ emitted[added[i]].kind = proof[i].kind
    /\ SameLiterals(ClauseOf(emitted[added[i]]), ClauseOf(proof[i]))
    /\ proof[i].kind = "step" =>
          /\ emitted[added[i]].rule = proof[i].rule
          /\ emitted[added[i]].premises =
                [n \in DOMAIN proof[i].premises |-> <<0, added[proof[i].premises[n][2]]>>]
          /\ \A n \in DOMAIN proof[i].premises :
                added[proof[i].premises[n][2]] \in 1..(added[i] - 1)

\* C13: on a proof without a shared premise compress_proof completes with no
\* unit node and no redirection, and emits exactly one command for each
\* command the root reaches, premises first, with the rule, the premises and
\* the literals of the original and no reinsertion step.
C13_UnsharedProofUnchanged ==
    (phase \in {"done", "panic"} /\ NoSharedPremise(proof)) =>
        /\ phase = "done"
        /\ unit_nodes = << >>
        /\ actual = [i \in DOMAIN proof |-> i]
        /\ Len(emitted) = Cardinality(Reachable(proof))
        /\ \A i \in Reachable(proof) : SameCommand(i)

---------------------------------------------------------------------------
(* get_pivots on its own                                                   *)

MaxLits == 2   \* literals of a premise clause

\* a, (not a), (not (not a)), b, (not b)
LitsPool == {aB, Not(aB), Not(Not(aB)), bB, Not(bB)}

\* The sequences that list each element of S once.
Orders(S) ==
    {g \in [1..Cardinality(S) -> S] : \A i, j \in 1..Cardinality(S) : g[i] = g[j] => i = j}

\* The clauses of one to MaxLits distinct literals, in every order.
Clauses ==
    UNION {Orders(S) : S \in {T \in SUBSET LitsPool : Cardinality(T) \in 1..MaxLits}}

\* One clause for each set of literals taken from the premises (get_pivots
\* turns the conclusion into a set).
Conclusions(premises) ==
    {Only(Orders(S))
     : S \in SUBSET UNION {SeqRange(premises[i]) : i \in DOMAIN premises}}

InitPivots ==
    /\ SubstIdle
    /\ CompressIdle
    /\ \E A \in Clauses, B \in Clauses :
          \E C \in Conclusions(<<A, B>>) :
             pivIn = [conclusion |-> C, premises |-> <<A, B>>]
    /\ pivOut = [called |-> FALSE, panic |-> FALSE, pivot |-> << >>]
    /\ SimplifyIdle
    /\ BenchIdle

\* get_pivots(conclusion, premises): a panic, or one of the pivots marked true.
CallGetPivots ==
    /\ ~pivOut.called
    /\ \E pivots \in {GetPivots(pivIn.conclusion, pivIn.premises)} :
          IF pivots = {}
          THEN pivOut' = [called |-> TRUE, panic |-> TRUE, pivot |-> << >>]
          ELSE \E pv \in pivots :
                  pivOut' = [called |-> TRUE, panic |-> FALSE, pivot |-> pv]
    /\ UNCHANGED <<pivIn, simpIn, simp, substVars, compVars, benchVars>>

NextPivots == CallGetPivots

SpecPivots == InitPivots /\ [][NextPivots]_vars

---------------------------------------------------------------------------
(* C14 *)

\* The literals p with p in one of the clauses A, B and (not p) in the other.
AcrossPairs(A, B) ==
    {p \in SeqRange(A) \cup SeqRange(B) :
        \/ p \in SeqRange(A) /\ Not(p) \in SeqRange(B)
        \/ p \in SeqRange(B) /\ Not(p) \in SeqRange(A)}

---------------------------------------------------------------------------
(* C15 *)

\* The literals p with p and (not p) both in the premises A, B, in the same
\* one or across.
Complements(A, B) ==
    {p \in SeqRange(A) \cup SeqRange(B) : Not(p) \in SeqRange(A) \cup SeqRange(B)}

\* The atoms the step can eliminate: atoms of a complementary pair of which the
\* conclusion keeps neither literal.
Eliminable(C, A, B) ==
    {RemoveAllNegations(p)[2] :
        p \in {q \in Complements(A, B) : q \notin SeqRange(C) /\ Not(q) \notin SeqRange(C)}}

\* C15: get_pivots panics whenever the premises do not determine exactly one
\* pivot: when they hold no complementary pair, and when two or more atoms are
\* eliminable.
C15_PanicUnlessOnePivot ==
    LET A == pivIn.premises[1]
        B == pivIn.premises[2]
    IN (pivOut.called
        /\ (Complements(A, B) = {} \/ Cardinality(Eliminable(pivIn.conclusion, A, B)) > 1))
       => pivOut.panic

---------------------------------------------------------------------------
(* C16 *)

\* The printed lines that show a rebuilt command or a part of one: the term of
\* a rebuilt assume, the clause of a rebuilt step, the clause computed for the
\* step about to be pushed.
ShowsRebuilt(line) ==
    line.text \in {"O step_l e um assume com", "Vou tentar resolution com",
                   "Left term", "Right term", "Resolution conclusion"}

\* C16: a run that fails fatally prints no rebuilt command and no part of one,
\* the rebuilt sequence is printed only once all phases have completed, and
\* the input proof is never modified.
C16_Atomic ==
    /\ [](phase = "panic" =>
            /\ emitted = << >>
            /\ \A n \in DOMAIN stdout : ~ShowsRebuilt(stdout[n]))
    /\ [](emitted # << >> => phase = "done")
    /\ [][proof' = proof]_vars

---------------------------------------------------------------------------
(* C17 *)

\* Every premise of every step of cmds is a command before the step.
PremisesBefore(cmds) ==
    \A k \in DOMAIN cmds :
       cmds[k].kind = "step" =>
          \A n \in DOMAIN cmds[k].premises : cmds[k].premises[n][2] \in 1..(k - 1)

\* C17: the rebuilt sequence is topologically ordered whenever it can be
\* observed, during reconstruction, during reinsertion and when it is printed,
\* and when phase 3 ends its last command is the rebuilt root.
C17_TopologicalOrder ==
    /\ PremisesBefore(new_commands)
    /\ PremisesBefore(emitted)
    /\ (phase = "reinsert" /\ next_unit = 1) =>
          /\ added[Len(proof)] = Len(new_commands)
          /\ new_commands[Len(new_commands)].kind = proof[Len(proof)].kind
          /\ new_commands[Len(new_commands)].kind = "step" =>
                new_commands[Len(new_commands)].rule = proof[Len(proof)].rule

---------------------------------------------------------------------------
(* C18 *)

\* add_node was called on command i of the proof: i is the root, a unit whose
\* reinsertion has begun, or the command a premise of such a command leads to.
RECURSIVE AddNodeCalledOn(_)
AddNodeCalledOn(S) ==
    IF \A k \in S : proof[k].kind = "step" =>
          \A n \in DOMAIN proof[k].premises : actual[proof[k].premises[n][2]] \in S
    THEN S
    ELSE AddNodeCalledOn(S \cup {actual[proof[k].premises[n][2]]
                                 : <<k, n>> \in {<<k, n>> \in S \X (1..MaxPremises) :
                                                   /\ proof[k].kind = "step"
                                                   /\ n \in DOMAIN proof[k].premises}})

\* C18: once add_node has been called on a command that is neither a step nor
\* an assume the run has stopped with a fatal error, and the rebuild map holds
\* no index for such a command.
C18_SubproofIsFatal ==
    phase \in {"reinsert", "done", "panic"} =>
        /\ \A i \in DOMAIN proof : proof[i].kind = "subproof" => added[i] = 0
        /\ (\E i \in AddNodeCalledOn({Len(proof)}) : proof[i].kind = "subproof")
              => phase = "panic"

---------------------------------------------------------------------------
(* generic_simplify_rule, not_simplify and bool_simplify                   *)
(* (rules/simplification.rs)                                               *)

FalseT == Var("false", "Bool")

Eq2(a, b)  == OpT("=", <<a, b>>)
Imp(a, b)  == OpT("=>", <<a, b>>)
And2(a, b) == OpT("and", <<a, b>>)
Or2(a, b)  == OpT("or", <<a, b>>)

\* match_term!((op x1 ... xn) = t): t is op applied to exactly n arguments.
MatchOp(op, n, t) == IsOp(t) /\ t.op = op /\ Len(t.args) = n

\* match_term!((not (op x y)) = t)
MatchNotOf(op, t) == MatchOp("not", 1, t) /\ MatchOp(op, 2, t.args[1])

\* DeepEq::eq on two terms.
DeepEq(a, b) == a = b

\* The functions below return an Option as a set: empty for None.

\* not_simplify_once: the arms of simplify! in their order.
NotSimplifyOnce(term) ==
    IF MatchOp("not", 1, term) /\ MatchOp("not", 1, term.args[1])
    THEN {term.args[1].args[1]}
    ELSE IF MatchOp("not", 1, term) /\ AsVar(term.args[1]) = {"false"}
    THEN {TrueT}
    ELSE IF MatchOp("not", 1, term) /\ AsVar(term.args[1]) = {"true"}
    THEN {FalseT}
    ELSE {}

\* A bool_simplify_once that lists the fifth arm before the fourth.
BoolSimplifyOnceReordered(term) ==
    IF MatchNotOf("=>", term)
    THEN {And2(term.args[1].args[1], Not(term.args[1].args[2]))}
    ELSE IF MatchNotOf("or", term)
    THEN {And2(Not(term.args[1].args[1]), Not(term.args[1].args[2]))}
    ELSE IF MatchNotOf("and", term)
    THEN {Or2(Not(term.args[1].args[1]), Not(term.args[1].args[2]))}
    ELSE IF /\ MatchOp("=>", 2, term) /\ MatchOp("=>", 2, term.args[1])
            /\ term.args[1].args[2] = term.args[2]
    THEN {Or2(term.args[1].args[1], term.args[1].args[2])}
    ELSE IF MatchOp("=>", 2, term) /\ MatchOp("=>", 2, term.args[2])
    THEN {Imp(And2(term.args[1], term.args[2].args[1]), term.args[2].args[2])}
    ELSE IF /\ MatchOp("and", 2, term) /\ MatchOp("=>", 2, term.args[2])
            /\ term.args[1] = term.args[2].args[1]
    THEN {And2(term.args[1], term.args[2].args[2])}
    ELSE IF /\ MatchOp("and", 2, term) /\ MatchOp("=>", 2, term.args[1])
            /\ term.args[1].args[1] = term.args[2]
    THEN {And2(term.args[1].args[1], term.args[1].args[2])}
    ELSE {}

\* bool_simplify_once: the arms of simplify! in their order; an arm whose
\* guard fails passes the term on to the next arm.
BoolSimplifyOnce(term) ==
    IF MatchNotOf("=>", term)
    THEN {And2(term.args[1].args[1], Not(term.args[1].args[2]))}
    ELSE IF MatchNotOf("or", term)
    THEN {And2(Not(term.args[1].args[1]), Not(term.args[1].args[2]))}
    ELSE IF MatchNotOf("and", term)
    THEN {Or2(Not(term.args[1].args[1]), Not(term.args[1].args[2]))}
    ELSE IF MatchOp("=>", 2, term) /\ MatchOp("=>", 2, term.args[2])
    THEN {Imp(And2(term.args[1], term.args[2].args[1]), term.args[2].args[2])}
    ELSE IF /\ MatchOp("=>", 2, term) /\ MatchOp("=>", 2, term.args[1])
            /\ term.args[1].args[2] = term.args[2]
    THEN {Or2(term.args[1].args[1], term.args[1].args[2])}
    ELSE IF /\ MatchOp("and", 2, term) /\ MatchOp("=>", 2, term.args[2])
            /\ term.args[1] = term.args[2].args[1]
    THEN {And2(term.args[1], term.args[2].args[2])}
    ELSE IF /\ MatchOp("and", 2, term) /\ MatchOp("=>", 2, term.args[1])
            /\ term.args[1].args[1] = term.args[2]
    THEN {And2(term.args[1].args[1], term.args[1].args[2])}
    ELSE {}

\* simplify_function: one of the two functions of the module, or a function
\* given by its table (a term outside the table is mapped to None).
SimplifyFunction(fn, term) ==
    IF fn.name = "not_simplify" THEN NotSimplifyOnce(term)
    ELSE IF fn.name = "bool_simplify" THEN BoolSimplifyOnce(term)
    ELSE IF term \in DOMAIN fn.table THEN {fn.table[term]}
    ELSE {}

NotSimplify  == [name |-> "not_simplify", table |-> << >>]
BoolSimplify == [name |-> "bool_simplify", table |-> << >>]
Table(f)     == [name |-> "table", table |-> f]

\* A loop that does not look at `seen`.
SimplifyUnchecked(fn, s) ==
    LET seen == s.seen \cup {s.current}
        next == SimplifyFunction(fn, s.current)
    IN IF next = {} THEN [s EXCEPT !.pc = "reject", !.seen = seen, !.next = NoTerm]
       ELSE IF DeepEq(Only(next), s.goal)
       THEN [s EXCEPT !.pc = "accept", !.seen = seen, !.next = Only(next)]
       ELSE [s EXCEPT !.seen = seen, !.current = Only(next), !.next = Only(next)]

\* One iteration of the loop of generic_simplify_rule on
\* s = [pc, goal, current, seen, next (what simplify_function returned last)].
SimplifyIteration(fn, s) ==
    IF s.current \in s.seen THEN [s EXCEPT !.pc = "panic"]
    ELSE LET seen == s.seen \cup {s.current}
             next == SimplifyFunction(fn, s.current)
         IN IF next = {} THEN [s EXCEPT !.pc = "reject", !.seen = seen, !.next = NoTerm]
            ELSE IF DeepEq(Only(next), s.goal)
            THEN [s EXCEPT !.pc = "accept", !.seen = seen, !.next = Only(next)]
            ELSE [s EXCEPT !.seen = seen, !.current = Only(next), !.next = Only(next)]

---------------------------------------------------------------------------
(* The steps generic_simplify_rule is given                                *)

MaxNots == 2   \* negations put on top of a term

RECURSIVE Nots(_, _)
Nots(k, t) == IF k = 0 THEN t ELSE Not(Nots(k - 1, t))

SimpAtoms == {pB, qB, rB}

\* The constants, the left-hand sides of the rewrites over p, q, r, and terms
\* a rewrite does not apply to at the top.
BaseTerms ==
    {pB, qB, TrueT, FalseT}
    \cup {OpT(op, <<x, y>>) : op \in {"=>", "or", "and"}, x \in SimpAtoms, y \in SimpAtoms}
    \cup {Imp(x, Imp(y, z)) : x \in SimpAtoms, y \in SimpAtoms, z \in SimpAtoms}
    \cup {Imp(Imp(x, y), z) : x \in SimpAtoms, y \in SimpAtoms, z \in SimpAtoms}
    \cup {And2(x, Imp(y, z)) : x \in SimpAtoms, y \in SimpAtoms, z \in SimpAtoms}
    \cup {And2(Imp(x, y), z) : x \in SimpAtoms, y \in SimpAtoms, z \in SimpAtoms}
    \cup {Imp(Imp(pB, Imp(qB, rB)), Imp(qB, rB)),
          And2(pB, Imp(pB, Imp(pB, qB))),
          OpT("or", <<pB, qB, rB>>),
          And2(Not(Not(pB)), qB)}

PhiTerms == {Nots(k, b) : k \in 0..MaxNots, b \in BaseTerms}

\* What repeated application of the function yields from t.
RECURSIVE Iterates(_, _)
Iterates(fn, t) ==
    UNION {{u} \cup Iterates(fn, u) : u \in SimplifyFunction(fn, t)}

SwapArgs(t) == IF IsOp(t) /\ Len(t.args) = 2 THEN OpT(t.op, <<t.args[2], t.args[1]>>) ELSE t

\* t with one of its arguments rewritten.
InnerRewrites(fn, t) ==
    IF IsOp(t)
    THEN UNION {{OpT(t.op, [t.args EXCEPT ![i] = u]) : u \in SimplifyFunction(fn, t.args[i])}
                : i \in DOMAIN t.args}
    ELSE {}

\* The right-hand sides tried for phi: phi itself, what the rewrites reach,
\* the same with the arguments swapped, a rewrite below the top, another term.
PsiTerms(fn, phi) ==
    {phi, pB}
    \cup Iterates(fn, phi)
    \cup {SwapArgs(u) : u \in Iterates(fn, phi)}
    \cup InnerRewrites(fn, phi)

\* Conclusions that are not a single equality of two terms.
OtherConclusions ==
    { << >>,
      <<Not(Not(pB))>>,
      <<Not(Eq2(Not(Not(pB)), pB))>>,
      <<OpT("=", <<Not(Not(pB)), pB, pB>>)>>,
      <<Eq2(Not(Not(pB)), pB), Eq2(Not(Not(pB)), pB)>> }

RuleInputs ==
    {[conclusion |-> c, fn |-> fn]
     : c \in OtherConclusions, fn \in {NotSimplify, BoolSimplify}}
    \cup UNION {{[conclusion |-> <<Eq2(phi, psi)>>, fn |-> fn] : psi \in PsiTerms(fn, phi)}
                : <<phi, fn>> \in PhiTerms \X {NotSimplify, BoolSimplify}}

\* Simplification functions given by a table over three terms.
TableTerms == {pB, qB, Not(pB)}

TableInputs ==
    {[conclusion |-> <<Eq2(phi, psi)>>, fn |-> Table(f)]
     : phi \in TableTerms, psi \in TableTerms,
       f \in UNION {[S -> TableTerms] : S \in SUBSET TableTerms}}

SimplifyStarting ==
    simp = [pc |-> "start", goal |-> NoTerm, current |-> NoTerm, seen |-> {},
            next |-> NoTerm]

InitSimplify ==
    /\ SubstIdle
    /\ CompressIdle
    /\ PivotsIdle
    /\ BenchIdle
    /\ simpIn \in RuleInputs \cup TableInputs
    /\ SimplifyStarting

\* generic_simplify_rule up to the loop.
SimplifyStart ==
    /\ simp.pc = "start"
    /\ simp' = IF Len(simpIn.conclusion) # 1 THEN [simp EXCEPT !.pc = "reject"]
               ELSE IF ~MatchOp("=", 2, simpIn.conclusion[1])
               THEN [simp EXCEPT !.pc = "reject"]
               ELSE [simp EXCEPT !.pc = "loop",
                                 !.current = simpIn.conclusion[1].args[1],
                                 !.goal = simpIn.conclusion[1].args[2]]
    /\ UNCHANGED <<simpIn, pivIn, pivOut, substVars, compVars, benchVars>>

SimplifyLoop ==
    /\ simp.pc = "loop"
    /\ simp' = SimplifyIteration(simpIn.fn, simp)
    /\ UNCHANGED <<simpIn, pivIn, pivOut, substVars, compVars, benchVars>>

NextSimplify == SimplifyStart \/ SimplifyLoop

\* The function runs to its return or its panic.
SpecSimplify == InitSimplify /\ [][NextSimplify]_vars /\ WF_vars(NextSimplify)

---------------------------------------------------------------------------
(* C19 *)

SimplifyReturned == simp.pc \in {"accept", "reject", "panic"}

\* What holds of every search: a term met again at the head of the loop is
\* answered by the panic, a rejection comes from a term no rewrite applies to,
\* a panic from a term seen before, and the search ends.
SearchEnds ==
    /\ [][(simp.pc = "loop" /\ simp.current \in simp.seen) => simp'.pc = "panic"]_vars
    /\ [](simp.pc = "reject" /\ simp.current # NoTerm
             => SimplifyFunction(simpIn.fn, simp.current) = {})
    /\ [](simp.pc = "panic" => simp.current \in simp.seen)
    /\ <>SimplifyReturned

---------------------------------------------------------------------------
(* C20 *)

\* The rewrites of a rule in the order they are listed: for each one, the
\* terms t rewrites to at its top (none when the left-hand side is not t).
ListedRewrites(name, t) ==
    LET S == Subterms(t)
    IN IF name = "not_simplify"
       THEN << {u \in S : t = Not(Not(u))},
               {TrueT : u \in {v \in S : t = Not(v) /\ IsVar(v) /\ v.var = "false"}},
               {FalseT : u \in {v \in S : t = Not(v) /\ IsVar(v) /\ v.var = "true"}} >>
       ELSE << {And2(x[1], Not(x[2])) : x \in {y \in S \X S : t = Not(Imp(y[1], y[2]))}},
               {And2(Not(x[1]), Not(x[2])) : x \in {y \in S \X S : t = Not(Or2(y[1], y[2]))}},
               {Or2(Not(x[1]), Not(x[2])) : x \in {y \in S \X S : t = Not(And2(y[1], y[2]))}},
               {Imp(And2(x[1], x[2]), x[3])
                : x \in {y \in S \X S \X S : t = Imp(y[1], Imp(y[2], y[3]))}},
               {Or2(x[1], x[2]) : x \in {y \in S \X S : t = Imp(Imp(y[1], y[2]), y[2])}},
               {And2(x[1], x[2]) : x \in {y \in S \X S : t = And2(y[1], Imp(y[1], y[2]))}},
               {And2(x[1], x[2]) : x \in {y \in S \X S : t = And2(Imp(y[1], y[2]), y[1])}} >>

\* The result of the first listed rewrite that applies to t at the top.
FirstApplying(rw) ==
    UNION {rw[k] : k \in {j \in DOMAIN rw : rw[j] # {} /\ \A i \in 1..(j - 1) : rw[i] = {}}}

RewriteAtTop(name, t) == UNION {FirstApplying(rw) : rw \in {ListedRewrites(name, t)}}

\* The terms reached from t by one or more successive rewrites at the top.
RECURSIVE ReachedFrom(_, _)
ReachedFrom(name, t) ==
    UNION {{u} \cup ReachedFrom(name, u) : u \in RewriteAtTop(name, t)}

\* C20: not_simplify and bool_simplify accept a step exactly when its clause is
\* one literal (= phi psi) and psi is reached from phi by one or more
\* successive rewrites at the top of the term, the first listed rewrite that
\* applies being the one taken, with the arguments in the order it builds.
C20_AcceptsExactlyRewrites ==
    (SimplifyReturned /\ simpIn.fn.name \in {"not_simplify", "bool_simplify"}) =>
        (simp.pc = "accept"
         <=> /\ Len(simpIn.conclusion) = 1
             /\ \E phi \in Subterms(simpIn.conclusion[1]) :
                   \E psi \in ReachedFrom(simpIn.fn.name, phi) :
                      simpIn.conclusion[1] = Eq2(phi, psi))

\* bool_simplify accepted a step after two rewrites.
C20_Witness ==
    /\ simp.pc = "accept"
    /\ simpIn.fn.name = "bool_simplify"
    /\ Cardinality(simp.seen) = 2

---------------------------------------------------------------------------
(* Runs that keep one Substitution and give it changing pairs and terms    *)

MaxEver == 3     \* different pairs one object is given in a run
MaxLogged == 3   \* images one object computes before the run stops applying

\* The pairs of the interleaved runs: two images for the key x, the reflexive
\* pair on x, a swap and a pair of different sorts.
SeqPairs ==
    { <<xI, yI>>,
      <<xI, xI>>,
      <<xI, OpT("+", <<IV("z"), IntC(0)>>)>>,
      <<yI, xI>>,
      <<xI, pB>> }

\* The terms the interleaved runs apply: variables, an operation, and binders
\* over y and over z.
SeqTerms ==
    { xI,
      yI,
      OpT("+", <<IntC(2), xI>>),
      QuantT("forall", << <<"y", IntS>> >>, OpT(">", <<yI, xI>>)),
      QuantT("forall", << <<"z", IntS>> >>, OpT(">", <<IV("z"), xI>>)) }

\* Substitution::single(x, t) with any pair.
SingleAny ==
    /\ sub = NoSub
    /\ last.op = "none"
    /\ \E p \in SeqPairs :
          \E r \in {Single(p[1], p[2])} :
             /\ inPair' = p
             /\ sub' = IF r.ok THEN r.s ELSE NoSub
             /\ last' = [op |-> "single", ok |-> r.ok, out |-> NoTerm, pre |-> sub]
    /\ UNCHANGED <<inTerm, compVars, ruleVars, benchVars>>

\* insert(x, t) with any pair, on the object as the earlier calls left it.
InsertAny ==
    /\ sub # NoSub
    /\ \E p \in SeqPairs :
          /\ Cardinality(sub.ever \cup {p}) <= MaxEver
          /\ \E r \in {Insert(sub, p[1], p[2])} :
                /\ inPair' = p
                /\ sub' = r.s
                /\ last' = [op |-> "insert", ok |-> r.ok, out |-> NoTerm, pre |-> sub]
    /\ UNCHANGED <<inTerm, compVars, ruleVars, benchVars>>

\* apply(term) with any term, on the object as the earlier calls left it.
ApplyAny ==
    /\ sub # NoSub
    /\ Len(sub.log) < MaxLogged
    /\ \E term \in SeqTerms :
          \E r \in {Apply(sub, term)} :
             /\ inTerm' = term
             /\ sub' = r.s
             /\ last' = [op |-> "apply", ok |-> r.ok, out |-> r.t, pre |-> sub]
    /\ UNCHANGED <<inPair, compVars, ruleVars, benchVars>>

\* No call was made yet: there is no pair and no term.
InitInterleave ==
    /\ sub = NoSub
    /\ last = [op |-> "none", ok |-> TRUE, out |-> NoTerm, pre |-> NoSub]
    /\ inTerm = NoTerm
    /\ inPair = <<NoTerm, NoTerm>>
    /\ CompressIdle
    /\ RulesIdle

NextInterleave == CallEmpty \/ SingleAny \/ CallNew \/ InsertAny \/ ApplyAny

SpecInterleave == InitInterleave /\ [][NextInterleave]_vars

---------------------------------------------------------------------------
(* C21 *)

\* The names the pairs now in the map ask to rename.
RenamedByMap(s) == UNION {RenamedBy(k, s.map[k]) : k \in DOMAIN s.map}

\* C21: after any sequence of new / single / insert calls, should_be_renamed
\* is exactly the union, over the non-reflexive pairs (x, t) now in the map,
\* of free_vars(t) and of {x} when x is a variable.
C21_RenamedSetExact ==
    sub # NoSub => sub.sbr = RenamedByMap(sub)

---------------------------------------------------------------------------
(* C28 *)

\* What apply returns on a substitution just constructed from the mapping m.
FreshImage(m, term) == Apply(New(m).s, term).t

\* C28: whatever insert and apply calls were made on the object before, apply
\* returns the term a freshly constructed substitution holding the current
\* mapping returns: no image cached before an insert is returned after it.
C28_ApplyAsFresh ==
    (last.op = "apply" /\ last.ok) => last.out = FreshImage(last.pre.map, inTerm)

---------------------------------------------------------------------------
(* C22 *)

FixProofReturned == phase \in {"rebuild", "reinsert", "done", "panic"}

\* The premises of command i, as indices, in premise order.
PremisesOf(prf, i) ==
    IF prf[i].kind = "step"
    THEN [n \in DOMAIN prf[i].premises |-> prf[i].premises[n][2]]
    ELSE << >>

\* The positions, in the premises of i, of the premises that are not dnm.
KeptPremises(prf, d, i) == {n \in DOMAIN PremisesOf(prf, i) : ~d[PremisesOf(prf, i)[n]]}

\* A step that is not dnm and has a dnm premise and a premise that is not.
IsRedirected(prf, d, i) ==
    /\ ~d[i]
    /\ prf[i].kind = "step"
    /\ \E n \in DOMAIN PremisesOf(prf, i) : d[PremisesOf(prf, i)[n]]
    /\ KeptPremises(prf, d, i) # {}

FirstKept(prf, d, i) ==
    PremisesOf(prf, i)[CHOOSE n \in KeptPremises(prf, d, i) :
                          \A m \in KeptPremises(prf, d, i) : n <= m]

\* C22: after redirection, every step that is not dnm and has a dnm premise
\* has actual[step] = find(first premise, in premise order, that is not dnm);
\* every other command has actual[i] = i.
C22_RedirectedToFirstKept ==
    FixProofReturned =>
        \A i \in DOMAIN proof :
            actual[i] = IF IsRedirected(proof, dnm, i)
                        THEN Find(FirstKept(proof, dnm, i), actual).r
                        ELSE i

---------------------------------------------------------------------------
(* C23 *)

\* An iteration of the reinsertion loop ran to its end.
UnitReinserted == phase = "reinsert" /\ phase' = "reinsert" /\ next_unit' = next_unit + 1

\* C23: each iteration of the reinsertion loop appends the unit and then
\* exactly one resolution step whose premises are, in this order, the command
\* that was last before and the freshly appended unit, two different commands;
\* the new step is the last command, the prior last node of the next iteration.
C23_ReinsertAppendsUnitAndStep ==
    [][UnitReinserted =>
         LET n == Len(new_commands)
             u == unit_nodes[next_unit]
         IN /\ Len(new_commands') = n + 2
            /\ SubSeq(new_commands', 1, n) = new_commands
            /\ added'[u] = n + 1
            /\ new_commands'[n + 2].kind = "step"
            /\ new_commands'[n + 2].rule = "resolution"
            /\ new_commands'[n + 2].premises = << <<0, n>>, <<0, n + 1>> >>]_vars

---------------------------------------------------------------------------
(* C24 *)

\* The original steps that have a rebuilt image, the command at added[i].
RebuiltSteps ==
    {i \in DOMAIN proof : /\ proof[i].kind = "step"
                          /\ i \in DOMAIN added
                          /\ added[i] \in DOMAIN new_commands}

\* C24: a rebuilt step of another rule than "resolution" has the clause of the
\* original step; a rebuilt "resolution" step has the clause binary resolution
\* gives from its rebuilt premises, on the pivot inferred against the original
\* clause, and lists no premise the clause does not account for: it has
\* exactly two premises.
C24_CopiedOrRecomputed ==
    \A i \in RebuiltSteps :
        LET c == new_commands[added[i]]
        IN IF proof[i].rule # "resolution"
           THEN c.clause = proof[i].clause
           ELSE /\ Len(c.premises) = 2
                /\ \E o \in NewBinaryResolutionFromOld(c.premises[1][2], c.premises[2][2],
                                                       new_commands, proof[i]) :
                      ~o.panic /\ o.clause = c.clause

---------------------------------------------------------------------------
(* C25 *)

\* C25: the command at position k of the emitted sequence (k counted from 1
\* here, from 0 in the code) carries the number k in its id, after "t" for a
\* step and "h" for an assume, so no two emitted commands share an id.
C25_SequentialIds ==
    /\ \A k \in DOMAIN emitted :
          emitted[k].id = Id(IF emitted[k].kind = "step" THEN "t" ELSE "h", k)
    /\ \A k, l \in DOMAIN emitted : emitted[k].id = emitted[l].id => k = l

\* A proof was emitted that holds an assume, a rebuilt step and a step of the
\* reinsertion loop.
C25_Witness ==
    /\ phase = "done"
    /\ unit_nodes # << >>
    /\ \E k \in DOMAIN emitted : emitted[k].kind = "assume"
    /\ \E i \in RebuiltSteps : TRUE
    /\ Len(emitted) > Cardinality({i \in DOMAIN added : added[i] # 0})

---------------------------------------------------------------------------
(* C26 *)

\* The command c is what add_node builds for the original command cmd: an
\* assume of the same term, or a step of the same rule with as many premises.
IsImageOf(cmd, c) ==
    /\ c.kind = cmd.kind
    /\ cmd.kind \in {"assume", "step"}
    /\ cmd.kind = "assume" => c.term = cmd.term
    /\ cmd.kind = "step" => c.rule = cmd.rule /\ Len(c.premises) = Len(cmd.premises)

\* The original commands for which added holds an index.
Added == {i \in DOMAIN added : added[i] # 0}

\* C26: an original command is rebuilt at most once: when added[i] holds an
\* index, the command at that index is the rebuilt image of command i and of
\* no other command, and added[i] and that command never change again.
C26_RebuiltAtMostOnce ==
    /\ [](\A i \in Added : /\ added[i] \in DOMAIN new_commands
                           /\ IsImageOf(proof[i], new_commands[added[i]])
                           /\ \A j \in Added : added[j] = added[i] => j = i)
    /\ [][\A i \in Added : /\ added'[i] = added[i]
                           /\ added[i] \in DOMAIN new_commands
                                 => /\ added[i] \in DOMAIN new_commands'
                                    /\ new_commands'[added[i]] = new_commands[added[i]]]_vars

---------------------------------------------------------------------------
(* C27 *)

\* find without path compression: the redirections are followed and nothing
\* is written.
RECURSIVE FindPlain(_, _)
FindPlain(i, act) == IF act[i] = i THEN i ELSE FindPlain(act[i], act)

\* fix_proof with FindPlain in the place of find.
RECURSIVE FixProofPlain(_, _, _, _)
RECURSIVE FixPremisesPlain(_, _, _, _, _)
RECURSIVE RedirectPlain(_, _, _, _, _)

FixPremisesPlain(premises, i, prf, d, act) ==
    IF i > Len(premises) THEN act
    ELSE FixPremisesPlain(premises, i + 1, prf, d,
                          Only({a : a \in {FixProofPlain(premises[i][2], prf, d, act)}}))

RedirectPlain(curr, premises, i, d, act) ==
    IF i > Len(premises) THEN act
    ELSE IF d[premises[i][2]] THEN RedirectPlain(curr, premises, i + 1, d, act)
    ELSE RedirectPlain(curr, premises, i + 1, d,
                       [act EXCEPT ![curr] = FindPlain(premises[i][2], act)])

FixProofPlain(curr, prf, d, act) ==
    IF d[curr] THEN act
    ELSE IF prf[curr].kind = "step" THEN
        Only({IF \E i \in DOMAIN prf[curr].premises : d[prf[curr].premises[i][2]]
              THEN RedirectPlain(curr, prf[curr].premises, 1, d, a)
              ELSE a
              : a \in {FixPremisesPlain(prf[curr].premises, 1, prf, d, act)}})
    ELSE act

\* No redirection leads upwards, so every chain of redirections ends.
IsForest(act) == \A i \in DOMAIN act : act[i] \in 1..i

\* A step was redirected to a premise that had been redirected itself.
RedirectedChain ==
    \E i \in DOMAIN proof :
        /\ IsRedirected(proof, dnm, i)
        /\ \E n \in KeptPremises(proof, dnm, i) :
              LET p == PremisesOf(proof, i)[n]
              IN IsRedirected(proof, dnm, p) /\ FindPlain(p, actual) # p

\* C27: once fix_proof has run, actual[i] <= i for every i; find(i) returns a
\* node r with actual[r] = r and leaves the representative of every node as
\* it was; actual[p], read directly by add_node, is find(p); and the array is
\* the one fix_proof computes with a find that does not write.
C27_PathCompressionUnobservable ==
    FixProofReturned =>
        /\ IsForest(actual)
        /\ \A i \in DOMAIN actual :
              \E f \in {Find(i, actual)} :
                 /\ actual[f.r] = f.r
                 /\ f.r = FindPlain(i, actual)
                 /\ IsForest(f.actual)
                 /\ \A j \in DOMAIN actual : FindPlain(j, f.actual) = FindPlain(j, actual)
                 /\ actual[i] = f.r
        /\ actual = FixProofPlain(Len(proof), proof, dnm, [i \in DOMAIN proof |-> i])

C27_Witness == FixProofReturned /\ RedirectedChain

---------------------------------------------------------------------------
(* C30 *)

\* The original steps and assumes whose rebuilt image was emitted.
EmittedImages ==
    {i \in Added : proof[i].kind \in {"step", "assume"} /\ added[i] \in DOMAIN emitted}

\* C30: every emitted step has no argument and no discharge, and the rule of
\* the step it rebuilds ("resolution" for a step of the reinsertion loop, which
\* rebuilds none); every emitted assume has the term of the assume it
\* rebuilds; the commands of the input proof never change.
C30_RuleAndTermKept ==
    /\ [](/\ \A k \in DOMAIN emitted :
                /\ emitted[k].kind \in {"step", "assume"}
                /\ emitted[k].kind = "step"
                      => /\ emitted[k].args = << >>
                         /\ emitted[k].discharge = << >>
                         /\ \/ \E i \in EmittedImages : added[i] = k
                            \/ emitted[k].rule = "resolution"
                /\ emitted[k].kind = "assume" => \E i \in EmittedImages : added[i] = k
          /\ \A i \in EmittedImages :
                /\ emitted[added[i]].kind = proof[i].kind
                /\ proof[i].kind = "step" => emitted[added[i]].rule = proof[i].rule
                /\ proof[i].kind = "assume" => emitted[added[i]].term = proof[i].term)
    /\ [][proof' = proof]_vars

\* A proof was emitted with the image of a step that carried arguments and a
\* discharge and the image of an assume.
C30_Witness ==
    /\ phase = "done"
    /\ \E i \in EmittedImages :
          /\ proof[i].kind = "step"
          /\ proof[i].args # << >>
          /\ proof[i].discharge # << >>
    /\ \E i \in EmittedImages : proof[i].kind = "assume"

---------------------------------------------------------------------------
(* run_benchmark and its worker threads                                    *)

MaxInstances == 2   \* instances given to run_benchmark
MaxRuns == 1        \* num_runs
MaxThreads == 2     \* num_threads

\* An instance is the number of its (problem file, proof file) pair.
JobDescriptor(inst, run_index) == [inst |-> inst, run_index |-> run_index]

\* The two loops that fill the queue: run_index outside, the instances inside.
JobsPushed(instances, num_runs) ==
    [n \in 1..(instances * num_runs) |->
        JobDescriptor(((n - 1) % instances) + 1, (n - 1) \div instances)]

\* CR::default(): no run measurement, no error.
NoResults == [runs |-> << >>, errors |-> << >>]

\* A thread that was not spawned yet.  `ran` is the history of the thread: the
\* jobs run_job has returned for, in order.
NotSpawned == [pc |-> "none", job |-> JobDescriptor(0, 0), results |-> NoResults,
               ran |-> << >>]

\* run_job: Err for an instance that cannot be parsed or checked, and then no
\* RunMeasurement; otherwise the measurement of (proof file, run_index).
RunJobKeepingErrors(results, job, failing) ==
    [ok |-> job.inst \notin failing, results |-> [results EXCEPT !.runs = Append(@, job)]]

RunJob(results, job, failing) ==
    IF job.inst \in failing
    THEN [ok |-> FALSE, results |-> results]
    ELSE [ok |-> TRUE, results |-> [results EXCEPT !.runs = Append(@, job)]]

\* The inputs: one or more instances, some of which fail, one or more runs,
\* any number of threads.
InitBench ==
    /\ SubstIdle
    /\ CompressIdle
    /\ PivotsIdle
    /\ SimplifyIdle
    /\ \E n \in 1..MaxInstances, r \in 1..MaxRuns, t \in 0..MaxThreads :
          \E f \in SUBSET (1..n) :
             benchIn = [instances |-> n, num_runs |-> r, num_threads |-> t, failing |-> f]
    /\ benchOut = [pc |-> "start", joined |-> << >>]
    /\ jobs_queue = << >>
    /\ workers = << >>

\* run_benchmark up to crossbeam::scope: the queue is filled.
PushJobs ==
    /\ benchOut.pc = "start"
    /\ jobs_queue' = JobsPushed(benchIn.instances, benchIn.num_runs)
    /\ workers' = [w \in 1..benchIn.num_threads |-> NotSpawned]
    /\ benchOut' = [benchOut EXCEPT !.pc = "spawn"]
    /\ UNCHANGED <<benchIn, substVars, compVars, ruleVars>>

\* The next thread is spawned; once all are, run_benchmark starts to join.
SpawnWorker ==
    /\ benchOut.pc = "spawn"
    /\ IF \E w \in DOMAIN workers : workers[w].pc = "none"
       THEN /\ \E w \in DOMAIN workers :
                  /\ workers[w].pc = "none"
                  /\ \A v \in 1..(w - 1) : workers[v].pc # "none"
                  /\ workers' = [workers EXCEPT ![w].pc = "pop"]
            /\ UNCHANGED benchOut
       ELSE /\ benchOut' = [benchOut EXCEPT !.pc = "join"]
            /\ UNCHANGED workers
    /\ UNCHANGED <<benchIn, jobs_queue, substVars, compVars, ruleVars>>

\* worker_thread, the head of the loop: jobs_queue.pop().
PopJob(w) ==
    /\ workers[w].pc = "pop"
    /\ IF jobs_queue = << >>
       THEN /\ workers' = [workers EXCEPT ![w].pc = "done"]
            /\ UNCHANGED jobs_queue
       ELSE /\ workers' = [workers EXCEPT ![w].pc = "run", ![w].job = Head(jobs_queue)]
            /\ jobs_queue' = Tail(jobs_queue)
    /\ UNCHANGED <<benchIn, benchOut, substVars, compVars, ruleVars>>

\* worker_thread, the body of the loop: run_job, and register_error on Err.
RunPopped(w) ==
    /\ workers[w].pc = "run"
    /\ \E r \in {RunJob(workers[w].results, workers[w].job, benchIn.failing)} :
          workers' = [workers EXCEPT
                         ![w].pc = "pop",
                         ![w].ran = Append(@, workers[w].job),
                         ![w].results = IF r.ok THEN r.results
                                        ELSE [r.results EXCEPT
                                                 !.errors = Append(@, workers[w].job.inst)]]
    /\ UNCHANGED <<benchIn, benchOut, jobs_queue, substVars, compVars, ruleVars>>

\* run_benchmark joins the threads in the order it spawned them and reduces
\* their results; with no thread there is nothing to reduce and unwrap panics.
JoinWorker ==
    /\ benchOut.pc = "join"
    /\ IF benchIn.num_threads = 0
       THEN benchOut' = [benchOut EXCEPT !.pc = "panic"]
       ELSE \E w \in {Len(benchOut.joined) + 1} :
               /\ workers[w].pc = "done"
               /\ benchOut' = [pc     |-> IF w = benchIn.num_threads THEN "done" ELSE "join",
                               joined |-> Append(benchOut.joined, workers[w].results)]
    /\ UNCHANGED <<benchIn, jobs_queue, workers, substVars, compVars, ruleVars>>

WorkerStep(w) == PopJob(w) \/ RunPopped(w)

NextBench ==
    \/ PushJobs
    \/ SpawnWorker
    \/ \E w \in DOMAIN workers : PopJob(w)
    \/ \E w \in DOMAIN workers : RunPopped(w)
    \/ JoinWorker

\* The threads are operating-system threads, each scheduled again and again,
\* and run_job returns.
SpecBench ==
    /\ InitBench
    /\ [][NextBench]_vars
    /\ WF_vars(PushJobs \/ SpawnWorker \/ JoinWorker)
    /\ \A w \in 1..MaxThreads : WF_vars(w \in DOMAIN workers /\ WorkerStep(w))

---------------------------------------------------------------------------
(* C29 *)

\* How often the job j is in the sequence seq.
TimesIn(seq, j) == Cardinality({k \in DOMAIN seq : seq[k] = j})

RECURSIVE SumOver(_, _)
SumOver(f, S) ==
    IF S = {} THEN 0
    ELSE Only({f[w] + SumOver(f, S \ {w}) : w \in {CHOOSE v \in S : TRUE}})

\* The threads that have popped j and not yet run it, and how often the
\* threads have run j.
TimesPopped(j) == Cardinality({w \in DOMAIN workers : workers[w].pc = "run" /\ workers[w].job = j})

TimesRan(j) == SumOver([w \in DOMAIN workers |-> TimesIn(workers[w].ran, j)], DOMAIN workers)

\* The elements of seq for which keep holds, in order.
RECURSIVE Filter(_, _)
Filter(seq, keep) ==
    IF seq = << >> THEN << >>
    ELSE (IF keep[Head(seq).inst] THEN <<Head(seq)>> ELSE << >>) \o Filter(Tail(seq), keep)

AllJobs == SeqRange(JobsPushed(benchIn.instances, benchIn.num_runs))

QueueFilled == benchOut.pc \notin {"idle", "start"}

\* Every job is in one place: on the queue, popped by one thread, or run once
\* by one thread.
EachJobOnce ==
    \A j \in AllJobs : TimesIn(jobs_queue, j) + TimesPopped(j) + TimesRan(j) = 1

\* A thread has one RunMeasurement for each job it ran that returned Ok, and
\* one registered error for each job it ran that returned Err.
ErrorsRegistered ==
    \A w \in DOMAIN workers :
        /\ workers[w].results.runs
              = Filter(workers[w].ran, [i \in 1..benchIn.instances |-> i \notin benchIn.failing])
        /\ workers[w].results.errors
              = [k \in DOMAIN Filter(workers[w].ran,
                                     [i \in 1..benchIn.instances |-> i \in benchIn.failing])
                 |-> Filter(workers[w].ran,
                            [i \in 1..benchIn.instances |-> i \in benchIn.failing])[k].inst]

AllWorkersDone ==
    /\ DOMAIN workers = 1..benchIn.num_threads
    /\ \A w \in DOMAIN workers : workers[w].pc = "done"

\* C29: with one thread or more, every job pushed on the queue is popped and
\* run by exactly one thread, once; a job that returns an error is registered
\* as an error, records no RunMeasurement and does not stop its thread; and
\* every thread terminates, the queue empty and every job run.
C29_EachJobRunOnce ==
    /\ [](QueueFilled => EachJobOnce /\ ErrorsRegistered)
    /\ [](\A w \in DOMAIN workers : workers[w].pc = "done" => jobs_queue = << >>)
    /\ (benchIn.num_threads >= 1)
          => <>[](/\ AllWorkersDone
                  /\ jobs_queue = << >>
                  /\ \A j \in AllJobs : TimesRan(j) = 1
                  /\ benchOut.pc = "done")

\* Two threads have finished and were joined, and one of them ran a job after
\* a job that returned an error.
C29_Witness ==
    /\ benchOut.pc = "done"
    /\ benchIn.num_threads >= 2
    /\ \E w \in DOMAIN workers :
          \E k \in DOMAIN workers[w].ran :
             /\ workers[w].ran[k].inst \in benchIn.failing
             /\ k < Len(workers[w].ran)

=============================================================================
